---- MODULE Spec2Model ----
(***************************************************************************)
(* Model of the Xenosumedia portfolio site:                                *)
(*   - the justified-row layout (computeRows, src/src/App.tsx),            *)
(*   - the thumbnail build script (build, src/unnamed/part_000),           *)
(*   - the page's manifest fetch and thumbnail lookup (src/src/App.tsx),   *)
(*   - the gallery's aspect loading effect (src/unnamed/part_001),         *)
(*   - the gallery's container width and row memo (src/src/App.tsx).       *)
(*                                                                         *)
(* Numbers.  The layout computes on JavaScript numbers.  They are modelled *)
(* as exact rationals <<n, d>> with d > 0 in lowest terms; +, *, /,        *)
(* Math.min and Math.max are the exact operations, so a statement "to      *)
(* within rounding" is stated with an explicit tolerance.  An aspect ratio *)
(* is drawn from the tenths (3/10 .. 35/10).                               *)
(*                                                                         *)
(* Strings.  A string whose characters the code inspects (an item's src)   *)
(* is a tuple of UTF-16 code units.                                        *)
(***************************************************************************)
EXTENDS Integers, Sequences, FiniteSets, TLC

VARIABLES
    \* ---- one call of computeRows (src/src/App.tsx:54-100)
    items,            \* argument: JustifiedItem[] (with __globalIndex)
    containerWidth,   \* argument
    gap,              \* argument
    baseRowHeight,    \* argument
    rows,             \* the returned JustifiedRow[]
    lpc,              \* "args": not yet called, "returned": rows holds the result
    \* ---- one run of the thumbnail build (src/unnamed/part_000:31-117)
    photos,           \* files walk(SRC_PHOTOS_DIR) yields, in walk order
    banners,          \* files walk(SRC_BANNER_DIR) yields, in walk order
    bpc,              \* "photos", "banner", "write", "done", "failed"
    cursor,           \* number of files of the current walk already consumed
    thumbs,           \* public/thumbs: file name -> pixel width of the file
    manifest,         \* the in-memory manifest object: key -> value
    manifestFile,     \* public/generated/manifest.json: "absent" or an object
    exitCode,         \* "running", 0 or 1
    lastDone,         \* the image processed by the latest step and its widths
    \* ---- the page's manifest fetch and gallery render (src/src/App.tsx:231-244, 132-134)
    response,         \* what the server does with GET /generated/manifest.json
    fetchPc,          \* "fetching", "then1", "then2", "catch", "settled"
    chainValue,       \* the value the promise chain carries to the next handler
    cancelled,        \* the effect's flag, set by its cleanup
    thumbsManifest,   \* the React state (a JavaScript value)
    pageItems,        \* the src of each item the gallery shows
    displaySrcs,      \* src -> the displaySrc of the latest render
    pageError,        \* a render threw
    \* ---- the gallery that resolves aspect ratios (src/unnamed/part_001:117-153)
    mounted,          \* the gallery is mounted
    runs,             \* the runs of the aspect loading effect, oldest first
    withRatios,       \* the React state the rows are computed from
    writeLog,         \* the runs that called setWithRatios, oldest first
    \* ---- the container width of the gallery (src/src/App.tsx:34-51, 119-120)
    width,            \* the React state of useContainerWidth
    queuedWidth,      \* <<w>>: setWidth(w) was called and not yet rendered
    memoRows,         \* the rows of the latest useMemo computation
    notified,         \* the widths the observer's callback has set, in order
    laidOut,          \* the widths the rows were recomputed for, in order
    \* ---- the virtualized rows of the gallery (src/unnamed/part_001:155-206)
    totalHeights,     \* the heights of the rows, in row order
    cumulative,       \* the memoized offsets: cumulative[i + 1] is the source's cumulative[i]
    rectTop,          \* el.getBoundingClientRect().top
    innerHeight,      \* window.innerHeight
    visibleRange,     \* the React state { start, end }
    raf,              \* 1: a frame callback is requested, 0: none
    rangeCurrent,     \* the frame callback has run since the last scroll or row change
    \* ---- one call of lowerBound (src/unnamed/part_001:245-253)
    searchHeights,    \* the row heights the searched offsets were computed from
    searchArr,        \* argument: the array
    searchTarget,     \* argument: the target
    searchResult,     \* the returned index
    spc,              \* "args": not yet called, "returned"
    \* ---- the lightbox of App (src/src/App.tsx:176-198, 291-383, 469-493)
    imageCount,       \* allImages.length
    lightboxIndex,    \* <<>>: null, <<i>>: open at i
    exif,             \* <<>>: null, <<k>>: the data parsed from allImages[k]
    parses,           \* the EXIF parses in flight: <<image, cancelled>>
    history,          \* the URLs (hashes) of the document's session history
    hpos,             \* the position of the current entry in history
    previousUrlRef,   \* <<>>: null, <<url>>
    savedScrollRef,   \* the ref's number
    scrollY,          \* window.scrollY
    pendingScrollTo,  \* <<y>>: the timer that will scroll to y, <<>>: none
    crashed,          \* the render threw: the page shows nothing any more
    openedBy,         \* how the open lightbox was opened: "click", "navigation", "deeplink"; "none" if closed
    lastEvent,        \* the event handled last
    lastClosed,       \* how the lightbox that the last event closed had been opened; "none" if it closed none
    \* ---- the lightbox of the earlier App (src/scripts/generate-favicons.mjs:234-256, 315-321, 388-404)
    imageCountV1,     \* allImages.length
    lightboxIndexV1,  \* <<>>: null, <<i>>: open at i
    exifV1,           \* <<>>: null, <<k>>: the data parsed from allImages[k]
    parsesV1          \* the EXIF parses in flight: <<image, cancelled>>

layoutVars == <<items, containerWidth, gap, baseRowHeight, rows, lpc>>
buildVars  == <<photos, banners, bpc, cursor, thumbs, manifest, manifestFile,
                exitCode, lastDone>>
pageVars   == <<response, fetchPc, chainValue, cancelled, thumbsManifest,
                pageItems, displaySrcs, pageError>>
galleryVars == <<mounted, runs, withRatios, writeLog>>
resizeVars == <<width, queuedWidth, memoRows, notified, laidOut>>
virtualVars == <<totalHeights, cumulative, rectTop, innerHeight, visibleRange, raf, rangeCurrent>>
searchVars == <<searchHeights, searchArr, searchTarget, searchResult, spc>>
lightboxVars == <<imageCount, lightboxIndex, exif, parses, history, hpos, previousUrlRef, savedScrollRef, scrollY, pendingScrollTo, crashed, openedBy, lastEvent, lastClosed>>
earlierVars == <<imageCountV1, lightboxIndexV1, exifV1, parsesV1>>
vars == <<layoutVars, buildVars, pageVars, galleryVars, resizeVars, virtualVars, searchVars, lightboxVars, earlierVars>>

\* the variables each part of the model leaves alone
notLayoutVars  == <<buildVars, pageVars, galleryVars, resizeVars, virtualVars, searchVars, lightboxVars, earlierVars>>
notBuildVars   == <<layoutVars, pageVars, galleryVars, resizeVars, virtualVars, searchVars, lightboxVars, earlierVars>>
notPageVars    == <<layoutVars, buildVars, galleryVars, resizeVars, virtualVars, searchVars, lightboxVars, earlierVars>>
notGalleryVars == <<layoutVars, buildVars, pageVars, resizeVars, virtualVars, searchVars, lightboxVars, earlierVars>>
notResizeVars  == <<layoutVars, buildVars, pageVars, galleryVars, virtualVars, searchVars, lightboxVars, earlierVars>>
notVirtualVars == <<layoutVars, buildVars, pageVars, galleryVars, resizeVars, searchVars, lightboxVars, earlierVars>>
notSearchVars == <<layoutVars, buildVars, pageVars, galleryVars, resizeVars, virtualVars, lightboxVars, earlierVars>>
notLightboxVars == <<layoutVars, buildVars, pageVars, galleryVars, resizeVars, virtualVars, searchVars, earlierVars>>
notEarlierVars == <<layoutVars, buildVars, pageVars, galleryVars, resizeVars, virtualVars, searchVars, lightboxVars>>

(***************************************************************************)
(* Exact rational arithmetic for JavaScript numbers.                       *)
(***************************************************************************)
Abs(x) == IF x < 0 THEN -x ELSE x

RECURSIVE GCD(_, _)
GCD(a, b) == IF b = 0 THEN a ELSE GCD(b, a % b)

\* n/d in lowest terms with a positive denominator (d # 0)
Frac(n, d) ==
    LET s == IF d < 0 THEN -1 ELSE 1
        g == GCD(Abs(n), Abs(d))
    IN  <<(s * n) \div g, (s * d) \div g>>

Num(k) == <<k, 1>>

\* f * g, reduced crosswise before multiplying
FracMul(f, g) ==
    LET g1 == GCD(Abs(f[1]), g[2])
        g2 == GCD(Abs(g[1]), f[2])
        a  == IF g1 = 0 THEN 0 ELSE f[1] \div g1
        d  == IF g1 = 0 THEN 1 ELSE g[2] \div g1
        c  == IF g2 = 0 THEN 0 ELSE g[1] \div g2
        b  == IF g2 = 0 THEN 1 ELSE f[2] \div g2
    IN  Frac(a * c, b * d)

\* f + g over the least common denominator
FracAdd(f, g) ==
    LET l == (f[2] \div GCD(f[2], g[2])) * g[2]
    IN  Frac(f[1] * (l \div f[2]) + g[1] * (l \div g[2]), l)

FracNeg(f) == <<-f[1], f[2]>>
FracSub(f, g) == FracAdd(f, FracNeg(g))

\* f / g for g # 0
FracDiv(f, g) ==
    FracMul(f, IF g[1] < 0 THEN <<-g[2], -g[1]>> ELSE <<g[2], g[1]>>)

\* a/b < c/d for b, d > 0, by integer parts and then the reciprocals of the
\* fractional parts: no product is formed, so nothing overflows
RECURSIVE FracLessRaw(_, _, _, _)
FracLessRaw(a, b, c, d) ==
    LET qa == a \div b
        qc == c \div d
        ra == a % b
        rc == c % d
    IN  IF qa # qc THEN qa < qc
        ELSE IF rc = 0 THEN FALSE
        ELSE IF ra = 0 THEN TRUE
        ELSE FracLessRaw(d, rc, b, ra)

FracLess(f, g) == FracLessRaw(f[1], f[2], g[1], g[2])
FracLeq(f, g) == ~FracLess(g, f)
FracMin(f, g) == IF FracLess(g, f) THEN g ELSE f
FracMax(f, g) == IF FracLess(f, g) THEN g ELSE f

(***************************************************************************)
(* getFilenameSeed (src/src/App.tsx:22-32)                                 *)
(***************************************************************************)
CharQuestion == 63
CharHash == 35
CharSlash == 47

\* s.split(c)[0]
RECURSIVE SplitFirst(_, _)
SplitFirst(s, c) ==
    IF s = <<>> \/ Head(s) = c THEN <<>>
    ELSE <<Head(s)>> \o SplitFirst(Tail(s), c)

\* s.split(c).pop()
SplitPop(s, c) ==
    IF \E i \in 1..Len(s) : s[i] = c
    THEN LET i == CHOOSE k \in 1..Len(s) :
                     s[k] = c /\ \A j \in (k + 1)..Len(s) : s[j] # c
         IN  SubSeq(s, i + 1, Len(s))
    ELSE s

\* bitwise exclusive or of two naturals
RECURSIVE BitXor(_, _)
BitXor(a, b) ==
    IF a = 0 THEN b
    ELSE IF b = 0 THEN a
    ELSE (((a % 2) + (b % 2)) % 2) + 2 * BitXor(a \div 2, b \div 2)

\* The 32-bit hash is held as <<high 16 bits, low 16 bits>>.
Half == 65536
FnvBasisHi == 33052      \* 2166136261 = 33052 * 65536 + 40389
FnvBasisLo == 40389
FnvPrimeHi == 256        \* 16777619 = 256 * 65536 + 403
FnvPrimeLo == 403
SeedModulus == 100000

\* h ^= c; h = Math.imul(h, 16777619); h >>>= 0   (c a UTF-16 code unit)
FnvStep(h, c) ==
    LET lo   == BitXor(h[2], c)
        hi   == h[1]
        prod == lo * FnvPrimeLo
    IN  <<((hi * FnvPrimeLo) + (lo * FnvPrimeHi) + (prod \div Half)) % Half,
          prod % Half>>

RECURSIVE FnvFold(_, _)
FnvFold(h, name) ==
    IF name = <<>> THEN h ELSE FnvFold(FnvStep(h, Head(name)), Tail(name))

\* (hi * 65536 + lo) % 100000 without forming hi * 65536
HashMod(h) == ((((h[1] * 256) % SeedModulus) * 256) + h[2]) % SeedModulus

FilenameOf(s) ==
    LET name == SplitPop(SplitFirst(SplitFirst(s, CharQuestion), CharHash), CharSlash)
    IN  IF name = <<>> THEN s ELSE name

\* the seed in [0, 1) as a rational
getFilenameSeed(s) ==
    Frac(HashMod(FnvFold(<<FnvBasisHi, FnvBasisLo>>, FilenameOf(s))), SeedModulus)

(***************************************************************************)
(* computeRows (src/src/App.tsx:54-100)                                    *)
(***************************************************************************)
HeightFloor == 80

RECURSIVE SumAspect(_)
SumAspect(rowItems) ==
    IF rowItems = <<>> THEN Num(0)
    ELSE FracAdd(Head(rowItems).aspectRatio, SumAspect(Tail(rowItems)))

\* mutant: the +-10% band of the per-item tweak used for the row jitter
TargetRowHeightWideBand(first, base) ==
    LET seed   == getFilenameSeed(first.src)
        jitter == FracAdd(Num(1), FracMul(FracSub(seed, Frac(1, 2)), Frac(2, 10)))
    IN  FracMul(Num(base), jitter)

\* the jittered target height of a row whose first item is `first`
TargetRowHeight(first, base) ==
    LET seed   == getFilenameSeed(first.src)
        jitter == FracAdd(Num(1), FracMul(FracSub(seed, Frac(1, 2)), Frac(12, 100)))
    IN  FracMul(Num(base), jitter)

\* the height at which the row fills the container exactly
ExactFillHeight(rowItems, cw, g) ==
    LET totalAspect == SumAspect(rowItems)
        totalGap    == g * (Len(rowItems) - 1)
    IN  FracDiv(Num(cw - totalGap), totalAspect)

\* mutant: the cap at 1.2 times the exact-fill height left out
FinalHeightWithoutCap(target, height) == FracMax(Num(HeightFloor), target)

\* mutant: the floor left out
FinalHeightWithoutFloor(target, height) ==
    FracMin(target, FracMul(height, Frac(12, 10)))

\* Math.max(80, Math.min(targetRowHeight, height * 1.2))
FinalHeight(target, height) ==
    FracMax(Num(HeightFloor), FracMin(target, FracMul(height, Frac(12, 10))))

SizedItem(it, finalHeight) ==
    [item |-> it,
     width |-> FracMul(it.aspectRatio, finalHeight),
     height |-> finalHeight,
     globalIndex |-> it.globalIndex]

\* pushRow: the row appended to rows
pushRow(rs, rowItems, cw, g, base) ==
    IF rowItems = <<>> THEN rs
    ELSE LET targetRowHeight == TargetRowHeight(rowItems[1], base)
             height          == ExactFillHeight(rowItems, cw, g)
             finalHeight     == FinalHeight(targetRowHeight, height)
         IN  Append(rs, [items  |-> [k \in 1..Len(rowItems) |->
                                        SizedItem(rowItems[k], finalHeight)],
                         height |-> finalHeight])

\* mutant: the row is closed at containerWidth, without the factor 1.15
OverflowsAtContainerWidth(currentRow, currentWidthAtBase, it, cw, g, base) ==
    LET tentativeWidth == FracMul(it.aspectRatio, Num(base))
        gaps           == g * Len(currentRow)
    IN  /\ Len(currentRow) > 0
        /\ FracLess(Num(cw),
                    FracAdd(FracAdd(currentWidthAtBase, tentativeWidth), Num(gaps)))

\* the test that closes the current row before `it` is added
Overflows(currentRow, currentWidthAtBase, it, cw, g, base) ==
    LET tentativeWidth == FracMul(it.aspectRatio, Num(base))
        gaps           == g * Len(currentRow)
    IN  /\ Len(currentRow) > 0
        /\ FracLess(FracMul(Num(cw), Frac(115, 100)),
                    FracAdd(FracAdd(currentWidthAtBase, tentativeWidth), Num(gaps)))

\* mutant: the row still open when the loop ends is never pushed
FlushLastRowForgotten(rs, currentRow, cw, g, base) == rs

\* if (currentRow.length) pushRow(currentRow)
FlushLastRow(rs, currentRow, cw, g, base) ==
    IF Len(currentRow) > 0 THEN pushRow(rs, currentRow, cw, g, base) ELSE rs

\* the for loop over items, from index i on
RECURSIVE RowLoop(_, _, _, _, _, _, _, _)
RowLoop(its, i, rs, currentRow, currentWidthAtBase, cw, g, base) ==
    IF i > Len(its)
    THEN FlushLastRow(rs, currentRow, cw, g, base)
    ELSE LET it             == its[i]
             tentativeWidth == FracMul(it.aspectRatio, Num(base))
         IN  IF Overflows(currentRow, currentWidthAtBase, it, cw, g, base)
             THEN RowLoop(its, i + 1, pushRow(rs, currentRow, cw, g, base),
                          <<it>>, tentativeWidth, cw, g, base)
             ELSE RowLoop(its, i + 1, rs, Append(currentRow, it),
                          FracAdd(currentWidthAtBase, tentativeWidth), cw, g, base)

computeRows(its, cw, g, base) ==
    IF cw <= 0 \/ Len(its) = 0 THEN <<>>
    ELSE RowLoop(its, 1, <<>>, <<>>, Num(0), cw, g, base)

(***************************************************************************)
(* The thumbnail build (src/unnamed/part_000:1-117)                        *)
(*                                                                         *)
(* A source file is [root, sub, base, ext, width]: the walked directory    *)
(* ("photos" or "banner"), the subdirectory below it ("" for none), the    *)
(* file name without and with its extension, and the native pixel width    *)
(* sharp reports.  Paths, manifest keys and URLs are tuples of the pieces  *)
(* the code concatenates.                                                  *)
(***************************************************************************)
TargetWidths == <<400, 800, 1200>>
DefaultWidthFallback == 2000

\* the extension in lower case (the regular expression has the i flag)
LowerExt(e) ==
    CASE e = ".JPG" -> ".jpg"
      [] e = ".PNG" -> ".png"
      [] OTHER -> e

\* /\.(jpe?g|png|webp)$/i.test(file)
isImage(file) == LowerExt(file.ext) \in {".jpg", ".jpeg", ".png", ".webp"}

\* meta.width || 2000
OrigWidth(metaWidth) == IF metaWidth = 0 THEN DefaultWidthFallback ELSE metaWidth

Min(a, b) == IF a < b THEN a ELSE b

\* sharp's resize({ width, withoutEnlargement }): the width of the output
SharpResize(native, target, withoutEnlargement) ==
    IF withoutEnlargement /\ target > native THEN native ELSE target

\* mutant: a plain resize to the target width
VariantWidthPlainResize(native, w) == SharpResize(native, w, FALSE)

\* the pixel width of the file written for target width w
VariantWidth(native, w) ==
    SharpResize(native, Min(OrigWidth(native), w), TRUE)

\* mutant: the file is written without the width in its name
OutNameWithoutWidth(baseName, w) == <<baseName, ".webp">>

\* `${baseName}-${w}.webp`, the name of the file inside public/thumbs
OutName(baseName, w) == <<baseName, "-", w, ".webp">>

\* `/thumbs/${baseName}-${w}.webp`
UrlOf(baseName, w) == <<"/thumbs/", baseName, "-", w, ".webp">>

\* the file of public/thumbs a URL is served from, or <<>> for another URL
FileOfUrl(url) == IF Len(url) > 0 /\ Head(url) = "/thumbs/" THEN Tail(url) ELSE <<>>

\* `${urls[400]} 400w, ${urls[800]} 800w, ${urls[1200]} 1200w`
SrcsetOf(baseName) ==
    [k \in 1..Len(TargetWidths) |->
        [url |-> UrlOf(baseName, TargetWidths[k]), w |-> TargetWidths[k]]]

\* mutant: the largest variant taken as the default
DefaultUrlLargest(baseName) == UrlOf(baseName, TargetWidths[Len(TargetWidths)])

\* urls[800] || urls[widths[widths.length-1]]
DefaultUrl(baseName) == UrlOf(baseName, TargetWidths[2])

\* `/assets/${path.basename(file)}`
ProdKey(file) == <<"/assets/", file.base, file.ext>>

\* '/src' + "/" + path.relative(ROOT/src, file)
DevKey(file) ==
    IF file.sub = ""
    THEN <<"/src", "/assets/", file.root, "/", file.base, file.ext>>
    ELSE <<"/src", "/assets/", file.root, "/", file.sub, "/", file.base, file.ext>>

SrcsetKey(key) == Append(key, "__srcset")

\* obj[key] = value on a function used as a JavaScript object
Put(obj, key, value) ==
    [k \in DOMAIN obj \cup {key} |-> IF k = key THEN value ELSE obj[k]]

EmptyObject == [k \in {} |-> <<>>]

NoFile == [root |-> "", sub |-> "", base |-> "", ext |-> "", width |-> 0]

\* the thumbs directory after the first n variants of file were written
RECURSIVE WriteVariants(_, _, _)
WriteVariants(dir, file, n) ==
    IF n = 0 THEN dir
    ELSE Put(WriteVariants(dir, file, n - 1),
             OutName(file.base, TargetWidths[n]),
             VariantWidth(file.width, TargetWidths[n]))

\* the four assignments to manifest for one image
RegisterImage(m, file) ==
    LET m1 == Put(m, ProdKey(file), DefaultUrl(file.base))
        m2 == Put(m1, SrcsetKey(ProdKey(file)), SrcsetOf(file.base))
        m3 == Put(m2, DevKey(file), DefaultUrl(file.base))
    IN  Put(m3, SrcsetKey(DevKey(file)), SrcsetOf(file.base))

\* the walk of the loop that is running
CurrentWalk == IF bpc = "photos" THEN photos ELSE banners
InLoop == bpc \in {"photos", "banner"}
CurrentFile == CurrentWalk[cursor + 1]

\* if (!isImage(file)) continue
SkipFile ==
    /\ InLoop
    /\ cursor < Len(CurrentWalk)
    /\ ~isImage(CurrentFile)
    /\ cursor' = cursor + 1
    /\ UNCHANGED <<photos, banners, bpc, thumbs, manifest, manifestFile,
                   exitCode, lastDone, notBuildVars>>

\* one pass of a loop body: three files written, four manifest entries set
ProcessFile ==
    /\ InLoop
    /\ cursor < Len(CurrentWalk)
    /\ isImage(CurrentFile)
    /\ thumbs' = WriteVariants(thumbs, CurrentFile, Len(TargetWidths))
    /\ manifest' = RegisterImage(manifest, CurrentFile)
    /\ lastDone' = [file |-> CurrentFile, written |-> Len(TargetWidths)]
    /\ cursor' = cursor + 1
    /\ UNCHANGED <<photos, banners, bpc, manifestFile, exitCode, notBuildVars>>

\* mutant: the error of a loop body is swallowed and the loop goes on with
\* the next file
FailFileSwallowed ==
    /\ InLoop
    /\ cursor < Len(CurrentWalk)
    /\ isImage(CurrentFile)
    /\ \E n \in 0..(Len(TargetWidths) - 1) :
          /\ thumbs' = WriteVariants(thumbs, CurrentFile, n)
          /\ lastDone' = [file |-> CurrentFile, written |-> n]
    /\ cursor' = cursor + 1
    /\ UNCHANGED <<photos, banners, bpc, exitCode, manifest, manifestFile, notBuildVars>>

\* a loop body throws after n of its files were written (n = 0: the read or
\* the decode failed); build().catch logs and exits with status 1
FailFile ==
    /\ InLoop
    /\ cursor < Len(CurrentWalk)
    /\ isImage(CurrentFile)
    /\ \E n \in 0..(Len(TargetWidths) - 1) :
          /\ thumbs' = WriteVariants(thumbs, CurrentFile, n)
          /\ lastDone' = [file |-> CurrentFile, written |-> n]
    /\ bpc' = "failed"
    /\ exitCode' = 1
    /\ UNCHANGED <<photos, banners, cursor, manifest, manifestFile, notBuildVars>>

\* the walk is exhausted: the photos loop hands over to the banner loop,
\* the banner loop to the write of the manifest
EndWalk ==
    /\ InLoop
    /\ cursor = Len(CurrentWalk)
    /\ bpc' = IF bpc = "photos" THEN "banner" ELSE "write"
    /\ cursor' = 0
    /\ UNCHANGED <<photos, banners, thumbs, manifest, manifestFile, exitCode,
                   lastDone, notBuildVars>>

\* fs.writeFile(MANIFEST_PATH, JSON.stringify(manifest, null, 2))
WriteManifest ==
    /\ bpc = "write"
    /\ manifestFile' = manifest
    /\ bpc' = "done"
    /\ exitCode' = 0
    /\ UNCHANGED <<photos, banners, cursor, thumbs, manifest, lastDone, notBuildVars>>

\* the write of the manifest throws
WriteManifestFails ==
    /\ bpc = "write"
    /\ bpc' = "failed"
    /\ exitCode' = 1
    /\ UNCHANGED <<photos, banners, cursor, thumbs, manifest, manifestFile,
                   lastDone, notBuildVars>>

(***************************************************************************)
(* The URL the page has for a photo, and the lookup of its thumbnail       *)
(* (src/src/App.tsx:224-228, 248; src/unnamed/part_002:15)                 *)
(***************************************************************************)
\* import.meta.glob('./assets/photos/*/*.{jpg,jpeg,png,webp}'): the files the
\* gallery shows (one folder below photos, the extension in lower case)
GalleryShows(file) ==
    /\ file.root = "photos"
    /\ file.sub # ""
    /\ file.ext \in {".jpg", ".jpeg", ".png", ".webp"}

\* the URL of the photo when the page is served from the source tree
DevServerUrl(file) ==
    <<"/src", "/assets/", file.root, "/", file.sub, "/", file.base, file.ext>>

\* the URL of the photo in a built bundle: assets/[name]-[hash][extname]
BundleUrl(file) == <<"/assets/", file.base, "-", "[hash]", file.ext>>

RuntimeUrl(file, served) ==
    IF served = "dev" THEN DevServerUrl(file) ELSE BundleUrl(file)

IsSeparator(piece) == piece \in {"/", "/assets/", "/thumbs/"}

\* src.split('/').pop() || ''
LastSegment(src) ==
    IF \E i \in 1..Len(src) : IsSeparator(src[i])
    THEN LET i == CHOOSE k \in 1..Len(src) :
                     IsSeparator(src[k]) /\ \A j \in (k + 1)..Len(src) : ~IsSeparator(src[j])
         IN  SubSeq(src, i + 1, Len(src))
    ELSE src

\* findThumbnail: the manifest's value at `/assets/${filename}`, <<>> for undefined
findThumbnail(src, thumbsByOriginal) ==
    LET manifestKey == <<"/assets/">> \o LastSegment(src)
    IN  IF manifestKey \in DOMAIN thumbsByOriginal
        THEN thumbsByOriginal[manifestKey]
        ELSE <<>>

(***************************************************************************)
(* The manifest fetch of App and the render of the gallery                 *)
(* (src/src/App.tsx:231-244, 132-134)                                      *)
(***************************************************************************)
\* JavaScript values the chain carries: an object or null
ObjectValue(obj) == [kind |-> "object", obj |-> obj]
NullValue == [kind |-> "null", obj |-> EmptyObject]

\* mutant: the state is set to m itself
OrEmptyObjectForgotten(m) == m

\* m || {}
OrEmptyObject(m) == IF m.kind = "null" THEN ObjectValue(EmptyObject) ELSE m

\* setThumbsManifest(m || {})
StateAfterThen(m) == OrEmptyObject(m)

\* thumb || item.src
DisplaySrc(src, manifestObject) ==
    LET thumb == findThumbnail(src, manifestObject)
    IN  IF thumb = <<>> THEN src ELSE thumb

\* the render of the gallery with the manifest state value: reading a
\* property of null throws
RenderedSrcs(value, shown) ==
    IF value.kind = "object"
    THEN [src \in shown |-> DisplaySrc(src, value.obj)]
    ELSE [src \in shown |-> <<>>]

RenderThrows(value, shown) == value.kind # "object" /\ shown # {}

PageIdle ==
    /\ response = [kind |-> "none", obj |-> EmptyObject]
    /\ fetchPc = "idle"
    /\ chainValue = NullValue
    /\ cancelled = FALSE
    /\ thumbsManifest = ObjectValue(EmptyObject)
    /\ pageItems = {}
    /\ displaySrcs = EmptyObject
    /\ pageError = FALSE

\* fetch() rejects: the chain skips both then handlers
FetchRejects ==
    /\ fetchPc = "fetching"
    /\ response.kind = "networkError"
    /\ fetchPc' = "catch"
    /\ UNCHANGED <<response, chainValue, cancelled, thumbsManifest, pageItems,
                   displaySrcs, pageError, notPageVars>>

\* fetch() resolves with a Response
FetchResolves ==
    /\ fetchPc = "fetching"
    /\ response.kind # "networkError"
    /\ fetchPc' = "then1"
    /\ UNCHANGED <<response, chainValue, cancelled, thumbsManifest, pageItems,
                   displaySrcs, pageError, notPageVars>>

\* (r) => r.ok ? r.json() : {}
FirstThen ==
    /\ fetchPc = "then1"
    /\ \/ /\ response.kind = "notOk"
          /\ chainValue' = ObjectValue(EmptyObject)
          /\ fetchPc' = "then2"
       \/ /\ response.kind = "malformed"
          /\ chainValue' = chainValue
          /\ fetchPc' = "catch"
       \/ /\ response.kind = "null"
          /\ chainValue' = NullValue
          /\ fetchPc' = "then2"
       \/ /\ response.kind = "object"
          /\ chainValue' = ObjectValue(response.obj)
          /\ fetchPc' = "then2"
    /\ UNCHANGED <<response, cancelled, thumbsManifest, pageItems, displaySrcs,
                   pageError, notPageVars>>

\* (m) => { if (!cancelled) setThumbsManifest(m || {}) }, and the render the
\* new state causes
SecondThen ==
    /\ fetchPc = "then2"
    /\ fetchPc' = "settled"
    /\ IF cancelled
       THEN UNCHANGED <<thumbsManifest, displaySrcs, pageError>>
       ELSE /\ thumbsManifest' = StateAfterThen(chainValue)
            /\ displaySrcs' = RenderedSrcs(thumbsManifest', pageItems)
            /\ pageError' = (pageError \/ RenderThrows(thumbsManifest', pageItems))
    /\ UNCHANGED <<response, chainValue, cancelled, pageItems, notPageVars>>

\* .catch(() => { if (!cancelled) setThumbsManifest({}) })
CatchHandler ==
    /\ fetchPc = "catch"
    /\ fetchPc' = "settled"
    /\ IF cancelled
       THEN UNCHANGED <<thumbsManifest, displaySrcs, pageError>>
       ELSE /\ thumbsManifest' = ObjectValue(EmptyObject)
            /\ displaySrcs' = RenderedSrcs(thumbsManifest', pageItems)
            /\ pageError' = (pageError \/ RenderThrows(thumbsManifest', pageItems))
    /\ UNCHANGED <<response, chainValue, cancelled, pageItems, notPageVars>>

\* the cleanup of the effect (App unmounts)
PageCleanup ==
    /\ fetchPc # "idle"
    /\ ~cancelled
    /\ cancelled' = TRUE
    /\ UNCHANGED <<response, fetchPc, chainValue, thumbsManifest, pageItems,
                   displaySrcs, pageError, notPageVars>>

\* ---- inputs of the page
PageFileA == [root |-> "photos", sub |-> "event", base |-> "a", ext |-> ".jpg"]
PageFileB == [root |-> "photos", sub |-> "sport", base |-> "b", ext |-> ".png"]
PageFileC == [root |-> "photos", sub |-> "event", base |-> "c", ext |-> ".webp"]

\* the manifests the server can hold: of no image, of A, of A and B
ServedManifests ==
    { EmptyObject,
      RegisterImage(EmptyObject, PageFileA),
      RegisterImage(RegisterImage(EmptyObject, PageFileA), PageFileB) }

\* the outcomes of the startup fetch
Responses ==
    { [kind |-> k, obj |-> EmptyObject] : k \in {"networkError", "notOk", "malformed", "null"} }
    \cup { [kind |-> "object", obj |-> m] : m \in ServedManifests }

PageFiles == { PageFileA, PageFileB, PageFileC }

\* the items of the galleries: the URLs import.meta.glob gives for the photos
\* the site has, served from the source tree or from a built bundle
ItemSets ==
    { { RuntimeUrl(f, served) : f \in shown } :
        shown \in (SUBSET PageFiles) \ {{}}, served \in {"dev", "bundle"} }

(***************************************************************************)
(* The gallery that resolves aspect ratios by loading the images           *)
(* (src/unnamed/part_001:52-67, 117-153)                                   *)
(***************************************************************************)
Concurrency == 8

\* the longest first list of a gallery, and the number of changes of its items
MaxGalleryItems == 9
MaxItemChanges == 1

\* the k-th photo of the site: its URL ("p/a", "p/b", ...) and what loading
\* it does (the image's natural size, or an error)
SrcOf(k) == <<112, 47, 96 + k>>

ImageOf(k) ==
    CASE k % 5 = 1 -> [kind |-> "load", naturalWidth |-> 3, naturalHeight |-> 2]
      [] k % 5 = 2 -> [kind |-> "error", naturalWidth |-> 0, naturalHeight |-> 0]
      [] k % 5 = 3 -> [kind |-> "load", naturalWidth |-> 0, naturalHeight |-> 0]
      [] k % 5 = 4 -> [kind |-> "load", naturalWidth |-> 4, naturalHeight |-> 1]
      [] OTHER     -> [kind |-> "load", naturalWidth |-> 1, naturalHeight |-> 4]

\* mutant: an error resolves 0
loadImageAspectErrorZero(image) ==
    IF image.kind = "error" THEN Num(0)
    ELSE IF image.naturalHeight = 0 THEN Num(1)
    ELSE Frac(image.naturalWidth, image.naturalHeight)

\* the value the promise of loadImageAspect resolves
loadImageAspect(image) ==
    IF image.kind = "error" THEN Num(1)
    ELSE IF image.naturalHeight = 0 THEN Num(1)
    ELSE Frac(image.naturalWidth, image.naturalHeight)

\* tweak = 1 + (r - 0.5) * 0.2
Tweak(src) ==
    FracAdd(Num(1), FracMul(FracSub(getFilenameSeed(src), Frac(1, 2)), Frac(2, 10)))

\* Math.max(0.3, Math.min(3.5, ratio * tweak))
TweakedAspect(ratio, src) ==
    FracMax(Frac(3, 10), FracMin(Frac(35, 10), FracMul(ratio, Tweak(src))))

\* mutant: __globalIndex counts from 1
EnrichedEntryOneBased(k, i) ==
    [src |-> SrcOf(k),
     aspectRatio |-> TweakedAspect(loadImageAspect(ImageOf(k)), SrcOf(k)),
     globalIndex |-> i + 1]

\* the entry a worker stores in enriched[i] (i counts from 0)
EnrichedEntry(k, i) ==
    [src |-> SrcOf(k),
     aspectRatio |-> TweakedAspect(loadImageAspect(ImageOf(k)), SrcOf(k)),
     globalIndex |-> i]

\* mutant: one load per item is started at once
StartedLoadsUnbounded(n) == 0..(n - 1)

\* the indices the workers claim when they are started: each of the
\* `concurrency` workers takes nextIndex++ and stops if it is past the end
StartedLoads(n) == 0..(Min(Concurrency, n) - 1)

\* the run the effect starts for a list of items
NewRun(list) ==
    [items |-> list,
     nextIndex |-> Concurrency,
     loading |-> StartedLoads(Len(list)),
     enriched |-> EmptyObject,
     cancelled |-> FALSE,
     settled |-> FALSE]

\* enriched as the list handed to setWithRatios
EnrichedList(run) == [j \in 1..Len(run.items) |-> run.enriched[j - 1]]

GalleryIdle ==
    /\ mounted = FALSE
    /\ runs = <<>>
    /\ withRatios = <<>>
    /\ writeLog = <<>>

\* the load of item i of run r ends (onload or onerror): the worker stores
\* the entry, takes nextIndex++ and starts that load unless it is past the end
LoadCompletes(r, i) ==
    /\ i \in runs[r].loading
    /\ LET run == runs[r]
           next == run.nextIndex
           entry == EnrichedEntry(run.items[i + 1], i)
       IN  runs' = [runs EXCEPT ![r] =
                       [run EXCEPT !.enriched = Put(run.enriched, i, entry),
                                   !.nextIndex = next + 1,
                                   !.loading = IF next < Len(run.items)
                                               THEN (run.loading \ {i}) \cup {next}
                                               ELSE run.loading \ {i}]]
    /\ UNCHANGED <<mounted, withRatios, writeLog, notGalleryVars>>

\* mutant: the state is set whether or not the run was cancelled
PublishIgnoringCancelled(r) ==
    /\ ~runs[r].settled
    /\ runs[r].loading = {}
    /\ runs' = [runs EXCEPT ![r].settled = TRUE]
    /\ withRatios' = EnrichedList(runs[r])
    /\ writeLog' = Append(writeLog, r)
    /\ UNCHANGED <<mounted, notGalleryVars>>

\* await Promise.all(queue) returns: if (!cancelled) setWithRatios(enriched)
Publish(r) ==
    /\ ~runs[r].settled
    /\ runs[r].loading = {}
    /\ runs' = [runs EXCEPT ![r].settled = TRUE]
    /\ IF runs[r].cancelled
       THEN UNCHANGED <<withRatios, writeLog>>
       ELSE /\ withRatios' = EnrichedList(runs[r])
            /\ writeLog' = Append(writeLog, r)
    /\ UNCHANGED <<mounted, notGalleryVars>>

\* the cleanup of the effect: cancelled = true in the latest run
CleanedUp == [runs EXCEPT ![Len(runs)].cancelled = TRUE]

\* the items prop changes: cleanup of the old effect, then the effect again
ItemsChange(list) ==
    /\ mounted
    /\ Len(runs) <= MaxItemChanges
    /\ runs' = Append(CleanedUp, NewRun(list))
    /\ UNCHANGED <<mounted, withRatios, writeLog, notGalleryVars>>

\* the gallery unmounts: cleanup of the effect
Unmount ==
    /\ mounted
    /\ mounted' = FALSE
    /\ runs' = CleanedUp
    /\ UNCHANGED <<withRatios, writeLog, notGalleryVars>>

\* useMemo(() => computeRows(withRatios, ...)): the list the rows are made of
RowsInput == withRatios

(***************************************************************************)
(* The container width of the gallery and the rows it recomputes           *)
(* (src/src/App.tsx:34-51, 103, 108-120)                                   *)
(***************************************************************************)
GalleryGap == 14

\* the number of notifications of one burst
MaxBurst == 3

\* Math.floor of a width (widths are not negative)
Floor(f) == f[1] \div f[2]

\* width >= 1024 ? 260 : width >= 640 ? 220 : 200
BaseRowHeightFor(w) == IF w >= 1024 THEN 260 ELSE IF w >= 640 THEN 220 ELSE 200

\* the effect on [items]: every item with the default aspect ratio 1.5
DefaultItems(srcs) ==
    [i \in 1..Len(srcs) |-> [src |-> srcs[i], aspectRatio |-> Frac(15, 10),
                             globalIndex |-> i - 1]]

\* the photos of the gallery that is resized
ResizedGallery == DefaultItems(<<SrcOf(1), SrcOf(2), SrcOf(3)>>)

\* useMemo(() => computeRows(withRatios, width, gap, baseRowHeight), ...)
RowsFor(w) == computeRows(ResizedGallery, w, GalleryGap, BaseRowHeightFor(w))

ResizeIdle ==
    /\ width = 0
    /\ queuedWidth = <<>>
    /\ memoRows = <<>>
    /\ notified = <<>>
    /\ laidOut = <<>>

\* the ResizeObserver calls back with the element's content width:
\* setWidth(Math.floor(cr.width))
ResizeNotify(contentWidth) ==
    /\ Len(notified) < MaxBurst
    /\ queuedWidth' = <<Floor(contentWidth)>>
    /\ notified' = Append(notified, Floor(contentWidth))
    /\ UNCHANGED <<width, memoRows, laidOut, notResizeVars>>

\* React renders with the queued state; the memo recomputes the rows when
\* width (and with it baseRowHeight) differs from the previous render's
Render ==
    /\ queuedWidth # <<>>
    /\ width' = queuedWidth[1]
    /\ queuedWidth' = <<>>
    /\ IF width' # width
       THEN /\ memoRows' = RowsFor(width')
            /\ laidOut' = Append(laidOut, width')
       ELSE UNCHANGED <<memoRows, laidOut>>
    /\ UNCHANGED <<notified, notResizeVars>>


(***************************************************************************)
(* The virtualized rows (src/unnamed/part_001:155-206, 245-253)            *)
(* Row heights are whole numbers here: the code only adds and compares     *)
(* them.                                                                   *)
(***************************************************************************)
ScrollBuffer == 800

\* the rows rendered when no range was computed yet
FirstRenderRows == 6

\* the most rows of a gallery
MaxVirtualRows == 6

Max(a, b) == IF a > b THEN a ELSE b

\* arr[i], counting from 0 as the source does
At(arr, i) == arr[i + 1]

\* the loop of lowerBound with `<=` for `<` (a mutant of the search)
RECURSIVE UpperBoundLoop(_, _, _, _)
UpperBoundLoop(arr, target, lo, hi) ==
    IF lo < hi
    THEN LET mid == (lo + hi) \div 2
         IN  IF At(arr, mid) <= target
             THEN UpperBoundLoop(arr, target, mid + 1, hi)
             ELSE UpperBoundLoop(arr, target, lo, mid)
    ELSE lo

\* while (lo < hi) { mid = (lo + hi) >>> 1; ... }
RECURSIVE LowerBoundLoop(_, _, _, _)
LowerBoundLoop(arr, target, lo, hi) ==
    IF lo < hi
    THEN LET mid == (lo + hi) \div 2
         IN  IF At(arr, mid) < target
             THEN LowerBoundLoop(arr, target, mid + 1, hi)
             ELSE LowerBoundLoop(arr, target, lo, mid)
    ELSE lo

\* mutant: the first index whose element is greater than the target
lowerBoundStrict(arr, target) == UpperBoundLoop(arr, target, 0, Len(arr))

lowerBound(arr, target) == LowerBoundLoop(arr, target, 0, Len(arr))

\* out[0] = 0; out[i + 1] = out[i] + totalHeights[i] + (last ? 0 : gap)
RECURSIVE CumulativeLoop(_, _, _)
CumulativeLoop(heights, i, out) ==
    IF i < Len(heights)
    THEN CumulativeLoop(heights, i + 1,
             Append(out, At(out, i) + At(heights, i)
                         + (IF i = Len(heights) - 1 THEN 0 ELSE GalleryGap)))
    ELSE out

CumulativeOf(heights) == CumulativeLoop(heights, 0, <<0>>)

\* cumulative[cumulative.length - 1] || 0
TotalHeightOf(cum) == At(cum, Len(cum) - 1)

\* cumulative[i] || 0: 0 for an index past the end
OrZero(cum, i) == IF i < Len(cum) THEN At(cum, i) ELSE 0

\* mutant: the range starts at the first offset at or after viewStart
RangeStartNoStepBack(cum, viewStart) == Max(0, lowerBound(cum, viewStart))

\* Math.max(0, lowerBound(cumulative, viewStart) - 1)
RangeStart(cum, viewStart) == Max(0, lowerBound(cum, viewStart) - 1)

\* Math.min(rows.length, lowerBound(cumulative, viewEnd) + 1)
RangeEnd(cum, viewEnd) == Min(Len(cum) - 1, lowerBound(cum, viewEnd) + 1)

\* the range the frame callback computes from the element's position
ComputedRange ==
    LET viewportTop == Max(0, 0 - rectTop)
        viewStart == Max(0, viewportTop - ScrollBuffer)
        viewEnd == viewportTop + innerHeight + ScrollBuffer
    IN  [start |-> RangeStart(cumulative, viewStart),
         end |-> RangeEnd(cumulative, viewEnd)]

\* ---- what a render makes of the state
startIndex == visibleRange.start
endIndex ==
    Min(Len(totalHeights), Max(visibleRange.end, startIndex + FirstRenderRows))
totalHeight == TotalHeightOf(cumulative)
topSpacer == OrZero(cumulative, startIndex)
bottomSpacer == totalHeight - OrZero(cumulative, endIndex)

VirtualIdle ==
    /\ totalHeights = <<>>
    /\ cumulative = <<0>>
    /\ rectTop = 0
    /\ innerHeight = 0
    /\ visibleRange = [start |-> 0, end |-> 0]
    /\ raf = 0
    /\ rangeCurrent = FALSE

\* the page scrolls: the element moves, and the scroll listener requests a
\* frame callback unless one is requested already
Scroll(top) ==
    /\ innerHeight > 0
    /\ top # rectTop
    /\ rectTop' = top
    /\ raf' = 1
    /\ rangeCurrent' = FALSE
    /\ UNCHANGED <<totalHeights, cumulative, innerHeight, visibleRange, notVirtualVars>>

\* the frame callback: the range is computed and set
FrameCallback ==
    /\ raf = 1
    /\ raf' = 0
    /\ visibleRange' = ComputedRange
    /\ rangeCurrent' = TRUE
    /\ UNCHANGED <<totalHeights, cumulative, rectTop, innerHeight, notVirtualVars>>

\* the rows change (another width, other items): the memos are recomputed
\* for the render, the effect is cleaned up (a requested frame is cancelled)
\* and runs again, calling onScroll(), which requests a frame
RowsChange(heights) ==
    /\ innerHeight > 0
    /\ heights # totalHeights
    /\ totalHeights' = heights
    /\ cumulative' = CumulativeOf(heights)
    /\ raf' = 1
    /\ rangeCurrent' = FALSE
    /\ UNCHANGED <<rectTop, innerHeight, visibleRange, notVirtualVars>>


(***************************************************************************)
(* One call of lowerBound (src/unnamed/part_001:245-253)                   *)
(***************************************************************************)
\* the longest array given to lowerBound directly
MaxSearchLen == 4

SearchIdle ==
    /\ searchHeights = <<>>
    /\ searchArr = <<>>
    /\ searchTarget = 0
    /\ searchResult = 0
    /\ spc = "idle"

\* searchResult = lowerBound(searchArr, searchTarget)
CallLowerBound ==
    /\ spc = "args"
    /\ searchResult' = lowerBound(searchArr, searchTarget)
    /\ spc' = "returned"
    /\ UNCHANGED <<searchHeights, searchArr, searchTarget, notSearchVars>>


(***************************************************************************)
(* The lightbox of App: history, scroll position and EXIF                  *)
(* (src/src/App.tsx:176-198, 291-383, 469-493).  A URL is its hash: <<>>   *)
(* for none, <<"#about">>, or <<"#lb=", d>> with d the number its digits   *)
(* spell.                                                                  *)
(***************************************************************************)
\* the most images, and the most entries of the session history
MaxImages == 2
MaxHistory == 2

\* window.location.hash.startsWith('#lb=')
IsLightboxHash(url) == url # <<>> /\ url[1] = "#lb="

\* /^#lb=(\d+)$/.exec(hash) and parseInt: <<idx>>, or <<>> for no match
ParsedLightboxHash(url) == IF IsLightboxHash(url) THEN <<url[2]>> ELSE <<>>

CurrentUrl == history[hpos]

\* the remainder of JavaScript's %, which has the sign of the dividend
JsRem(a, b) == IF a >= 0 THEN a % b ELSE 0 - ((0 - a) % b)

\* mutant: showPrev without the added length
PrevIndexPlain(idx, n) == JsRem(idx - 1, n)

\* (idx + allImages.length - 1) % allImages.length
PrevIndex(idx, n) == JsRem(idx + n - 1, n)

\* (idx + 1) % allImages.length
NextIndex(idx, n) == JsRem(idx + 1, n)

\* allImages[lightboxIndex].src throws when the index is past the end
RenderThrowsAt(index, n) == index # <<>> /\ ~(index[1] < n)

\* the cleanup of the mounted ExifPanel's effect: cancelled = true
CancelAll(ps) == { <<p[1], TRUE>> : p \in ps }

\* the effect of a newly mounted ExifPanel: a parse of its src begins
\* (nothing is mounted when the render throws)
WithParseOf(ps, index, n) ==
    IF index # <<>> /\ index[1] < n
    THEN ps \cup { <<index[1], FALSE>> }
    ELSE ps

\* setExif(null) inside the updater of showNext and showPrev
ExifAfterShow(old) == <<>>

\* the index the initial-hash effect and the popstate handler set
DeepLinkIndex(url, n) == ParsedLightboxHash(url)

LightboxIdle ==
    /\ imageCount = 0
    /\ lightboxIndex = <<>>
    /\ exif = <<>>
    /\ parses = {}
    /\ history = <<>>
    /\ hpos = 0
    /\ previousUrlRef = <<>>
    /\ savedScrollRef = 0
    /\ scrollY = 0
    /\ pendingScrollTo = <<>>
    /\ crashed = FALSE
    /\ openedBy = "none"
    /\ lastEvent = "idle"
    /\ lastClosed = "none"

\* a gallery item is clicked: openLightbox(index), then the render and the
\* effects (exif reset, the new ExifPanel's parse)
openLightbox(index) ==
    /\ ~crashed
    /\ lightboxIndex = <<>>
    /\ index < imageCount
    /\ hpos < MaxHistory
    /\ savedScrollRef' = scrollY
    /\ previousUrlRef' = <<CurrentUrl>>
    /\ history' = Append(SubSeq(history, 1, hpos), <<"#lb=", index>>)
    /\ hpos' = hpos + 1
    /\ lightboxIndex' = <<index>>
    /\ exif' = <<>>
    /\ parses' = WithParseOf(parses, <<index>>, imageCount)
    /\ openedBy' = "click"
    /\ lastEvent' = "openLightbox"
    /\ lastClosed' = "none"
    /\ UNCHANGED <<imageCount, scrollY, pendingScrollTo, crashed, notLightboxVars>>

\* the URL closeLightbox leaves in the current entry
UrlAfterClose ==
    IF IsLightboxHash(CurrentUrl)
    THEN IF previousUrlRef # <<>> THEN previousUrlRef[1] ELSE <<>>
    ELSE CurrentUrl

closeLightbox ==
    /\ ~crashed
    /\ lightboxIndex # <<>>
    /\ history' = [history EXCEPT ![hpos] = UrlAfterClose]
    /\ lightboxIndex' = <<>>
    /\ exif' = <<>>
    /\ parses' = CancelAll(parses)
    /\ openedBy' = "none"
    /\ lastEvent' = "closeLightbox"
    /\ lastClosed' = openedBy
    /\ UNCHANGED <<imageCount, hpos, previousUrlRef, savedScrollRef, scrollY,
                   pendingScrollTo, crashed, notLightboxVars>>

\* mutant: the timer of the popstate handler scrolls to the top
RestoreTimerTop == <<0>>

\* the timer the popstate handler sets: window.scrollTo({ top: savedScrollRef.current })
RestoreTimer == <<savedScrollRef>>

\* onPopState after the browser has moved to the entry at position `to`
\* (and scrolled as it saw fit), then the render and the effects
PopState(to, browserScroll, event) ==
    /\ ~crashed
    /\ hpos' = to
    /\ scrollY' = browserScroll
    /\ lastEvent' = event
    /\ lastClosed' = openedBy
    /\ IF lightboxIndex # <<>>
       THEN /\ lightboxIndex' = <<>>
            /\ exif' = <<>>
            /\ parses' = CancelAll(parses)
            /\ pendingScrollTo' = RestoreTimer
            /\ openedBy' = "none"
            /\ crashed' = crashed
       ELSE LET idx == DeepLinkIndex(history[to], imageCount)
            IN  /\ lightboxIndex' = idx
                /\ exif' = <<>>
                /\ parses' = WithParseOf(parses, idx, imageCount)
                /\ pendingScrollTo' = pendingScrollTo
                /\ openedBy' = IF idx # <<>> THEN "navigation" ELSE "none"
                /\ crashed' = RenderThrowsAt(idx, imageCount)
    /\ UNCHANGED <<imageCount, history, previousUrlRef, savedScrollRef, notLightboxVars>>

Back(browserScroll) == hpos > 1 /\ PopState(hpos - 1, browserScroll, "back")

Forward(browserScroll) ==
    hpos < Len(history) /\ PopState(hpos + 1, browserScroll, "forward")

\* the updater of showPrev: null stays null
showPrevUpdater(idx, n) == IF idx = <<>> THEN <<>> ELSE <<PrevIndex(idx[1], n)>>

\* the updater of showNext: null stays null
showNextUpdater(idx, n) == IF idx = <<>> THEN <<>> ELSE <<NextIndex(idx[1], n)>>

\* the state after showNext or showPrev gave the index `to`; a changed
\* index remounts the ExifPanel, which is keyed by the image's src
ShowIndex(to, event) ==
    /\ lightboxIndex' = to
    /\ exif' = IF lightboxIndex = <<>> THEN exif ELSE ExifAfterShow(exif)
    /\ parses' = IF to = lightboxIndex
                 THEN parses
                 ELSE WithParseOf(CancelAll(parses), to, imageCount)
    /\ lastEvent' = event
    /\ lastClosed' = "none"
    /\ UNCHANGED <<imageCount, history, hpos, previousUrlRef, savedScrollRef, scrollY,
                   pendingScrollTo, crashed, openedBy, notLightboxVars>>

showNext ==
    /\ ~crashed
    /\ ShowIndex(showNextUpdater(lightboxIndex, imageCount), "showNext")

showPrev ==
    /\ ~crashed
    /\ ShowIndex(showPrevUpdater(lightboxIndex, imageCount), "showPrev")

\* a parse ends: with data (setExif({...})) or by throwing (setExif(null)),
\* unless the effect that began it was cleaned up
ParseEnds(p, withData) ==
    /\ p \in parses
    /\ parses' = parses \ {p}
    /\ exif' = IF p[2] THEN exif
               ELSE IF withData THEN <<p[1]>> ELSE <<>>
    /\ lastEvent' = "parseEnds"
    /\ lastClosed' = "none"
    /\ UNCHANGED <<imageCount, lightboxIndex, history, hpos, previousUrlRef,
                   savedScrollRef, scrollY, pendingScrollTo, crashed, openedBy,
                   notLightboxVars>>

\* setTimeout(() => window.scrollTo({ top: y }), 0)
ScrollTimer ==
    /\ pendingScrollTo # <<>>
    /\ scrollY' = pendingScrollTo[1]
    /\ pendingScrollTo' = <<>>
    /\ lastEvent' = "scrollTimer"
    /\ lastClosed' = "none"
    /\ UNCHANGED <<imageCount, lightboxIndex, exif, parses, history, hpos,
                   previousUrlRef, savedScrollRef, crashed, openedBy, notLightboxVars>>

\* a link of the page's header (href="#about", href="#hero") is followed
\* while the lightbox is closed
FollowAnchor(url, browserScroll) ==
    /\ ~crashed
    /\ lightboxIndex = <<>>
    /\ hpos >= 1
    /\ hpos < MaxHistory
    /\ url # CurrentUrl
    /\ history' = Append(SubSeq(history, 1, hpos), url)
    /\ hpos' = hpos + 1
    /\ scrollY' = browserScroll
    /\ lastEvent' = "followAnchor"
    /\ lastClosed' = "none"
    /\ UNCHANGED <<imageCount, lightboxIndex, exif, parses, previousUrlRef,
                   savedScrollRef, pendingScrollTo, crashed, openedBy, notLightboxVars>>


(***************************************************************************)
(* The lightbox of the earlier App: one ExifPanel without a key, whose     *)
(* effect runs when src changes and does nothing while exif is set         *)
(* (src/scripts/generate-favicons.mjs:234-256, 315-321, 388-404).          *)
(***************************************************************************)
\* the effect of the ExifPanel after src became that of `index`:
\* if (!src || exif) return, else a parse of src begins
EffectV1(ps, index, shownExif) ==
    IF index = <<>> \/ shownExif # <<>>
    THEN ps
    ELSE ps \cup { <<index[1], FALSE>> }

EarlierIdle ==
    /\ imageCountV1 = 0
    /\ lightboxIndexV1 = <<>>
    /\ exifV1 = <<>>
    /\ parsesV1 = {}

\* openLightbox = (index) => setLightboxIndex(index); the panel mounts
openLightboxV1(index) ==
    /\ lightboxIndexV1 = <<>>
    /\ index < imageCountV1
    /\ lightboxIndexV1' = <<index>>
    /\ parsesV1' = EffectV1(parsesV1, <<index>>, exifV1)
    /\ UNCHANGED <<imageCountV1, exifV1, notEarlierVars>>

\* closeLightbox = () => { setLightboxIndex(null); setExif(null) }; the
\* panel unmounts
closeLightboxV1 ==
    /\ lightboxIndexV1 # <<>>
    /\ lightboxIndexV1' = <<>>
    /\ exifV1' = <<>>
    /\ parsesV1' = CancelAll(parsesV1)
    /\ UNCHANGED <<imageCountV1, notEarlierVars>>

\* the state after showNext or showPrev gave the index `to`: exif is left
\* as it is; a changed src cleans the effect up and runs it again
ShowIndexV1(to) ==
    /\ lightboxIndexV1' = to
    /\ parsesV1' = IF to = lightboxIndexV1
                   THEN parsesV1
                   ELSE EffectV1(CancelAll(parsesV1), to, exifV1)
    /\ UNCHANGED <<imageCountV1, exifV1, notEarlierVars>>

showNextV1 ==
    /\ lightboxIndexV1 # <<>>
    /\ ShowIndexV1(showNextUpdater(lightboxIndexV1, imageCountV1))

showPrevV1 ==
    /\ lightboxIndexV1 # <<>>
    /\ ShowIndexV1(showPrevUpdater(lightboxIndexV1, imageCountV1))

\* a parse ends: with data or by throwing, unless its effect was cleaned up
ParseEndsV1(p, withData) ==
    /\ p \in parsesV1
    /\ parsesV1' = parsesV1 \ {p}
    /\ exifV1' = IF p[2] THEN exifV1
                 ELSE IF withData THEN <<p[1]>> ELSE <<>>
    /\ UNCHANGED <<imageCountV1, lightboxIndexV1, notEarlierVars>>

(***************************************************************************)
(* Inputs of the layout calls                                              *)
(***************************************************************************)
MaxItems == 3

\* "p/a" (seed 0.0222), "q/e?b#c" (file name "e", seed 0.91744) and "b/"
\* (no file name: the whole string is hashed, seed 0.27038)
Srcs == { <<112, 47, 97>>, <<113, 47, 101, 63, 98, 35, 99>>, <<98, 47>> }
\* 1.0, 1.5 (the gallery's default, src/src/App.tsx:112), 3.5
AspectRatios == { Frac(10, 10), Frac(15, 10), Frac(35, 10) }
\* 0 takes the early return; 100 is narrower than a wide item at the floor
Widths == { 0, 100, 600, 900 }
\* 14 is the gallery's gap (src/src/App.tsx:103)
Gaps == { 10, 14 }
\* two of the gallery's base heights (src/src/App.tsx:119)
BaseRowHeights == { 200, 260 }

\* the lists the gallery hands to computeRows: item i carries __globalIndex i
ItemLists ==
    UNION { { [i \in 1..n |-> [src |-> pick[i][1], aspectRatio |-> pick[i][2],
                               globalIndex |-> i - 1]] :
              pick \in [1..n -> Srcs \X AspectRatios] } : n \in 0..MaxItems }

(***************************************************************************)
(* The build's variables, at rest while the layout is checked              *)
(***************************************************************************)
BuildIdle ==
    /\ photos = <<>>
    /\ banners = <<>>
    /\ bpc = "idle"
    /\ cursor = 0
    /\ thumbs = EmptyObject
    /\ manifest = EmptyObject
    /\ manifestFile = "absent"
    /\ exitCode = "running"
    /\ lastDone = [file |-> NoFile, written |-> 0]

(***************************************************************************)
(* The layout: one call of computeRows per behaviour                       *)
(***************************************************************************)
LayoutInit ==
    /\ items \in ItemLists
    /\ containerWidth \in Widths
    /\ gap \in Gaps
    /\ baseRowHeight \in BaseRowHeights
    /\ rows = <<>>
    /\ lpc = "args"
    /\ BuildIdle
    /\ PageIdle
    /\ GalleryIdle
    /\ ResizeIdle
    /\ VirtualIdle
    /\ SearchIdle
    /\ LightboxIdle
    /\ EarlierIdle

\* rows = computeRows(items, containerWidth, gap, baseRowHeight)
CallComputeRows ==
    /\ lpc = "args"
    /\ rows' = computeRows(items, containerWidth, gap, baseRowHeight)
    /\ lpc' = "returned"
    /\ UNCHANGED <<items, containerWidth, gap, baseRowHeight, notLayoutVars>>

LayoutNext == CallComputeRows

LayoutSpec == LayoutInit /\ [][LayoutNext]_vars

(***************************************************************************)
(* The build: one run per behaviour, over a source tree drawn at the start *)
(***************************************************************************)
MaxPhotos == 2
MaxBanners == 1

\* native widths below, between and above the target widths
NativeWidths == { 300, 1000, 2000 }

PhotoPaths ==
    { [root |-> "photos", sub |-> "event", base |-> "a", ext |-> ".jpg"],
      [root |-> "photos", sub |-> "sport", base |-> "a", ext |-> ".jpg"],
      [root |-> "photos", sub |-> "event", base |-> "a", ext |-> ".PNG"],
      [root |-> "photos", sub |-> "event", base |-> "b", ext |-> ".webp"],
      [root |-> "photos", sub |-> "event", base |-> "notes", ext |-> ".txt"] }

BannerPaths ==
    { [root |-> "banner", sub |-> "", base |-> "a", ext |-> ".jpg"],
      [root |-> "banner", sub |-> "", base |-> "hero", ext |-> ".jpeg"] }

WithWidth(path, w) ==
    [root |-> path.root, sub |-> path.sub, base |-> path.base, ext |-> path.ext,
     width |-> w]

PathOf(file) ==
    [root |-> file.root, sub |-> file.sub, base |-> file.base, ext |-> file.ext]

\* the walks of at most max files over paths: no path twice, any order
Walks(paths, max) ==
    UNION { { walk \in [1..n -> { WithWidth(q, w) : q \in paths, w \in NativeWidths }] :
                \A i, j \in 1..n : i # j => PathOf(walk[i]) # PathOf(walk[j]) } :
            n \in 0..max }

LayoutIdle ==
    /\ items = <<>>
    /\ containerWidth = 0
    /\ gap = 0
    /\ baseRowHeight = 0
    /\ rows = <<>>
    /\ lpc = "idle"

BuildInit ==
    /\ photos \in Walks(PhotoPaths, MaxPhotos)
    /\ banners \in Walks(BannerPaths, MaxBanners)
    /\ bpc = "photos"
    /\ cursor = 0
    /\ thumbs = EmptyObject
    /\ manifest = EmptyObject
    /\ manifestFile = "absent"
    /\ exitCode = "running"
    /\ lastDone = [file |-> NoFile, written |-> 0]
    /\ LayoutIdle
    /\ PageIdle
    /\ GalleryIdle
    /\ ResizeIdle
    /\ VirtualIdle
    /\ SearchIdle
    /\ LightboxIdle
    /\ EarlierIdle

BuildNext ==
    \/ SkipFile
    \/ ProcessFile
    \/ FailFile
    \/ EndWalk
    \/ WriteManifest
    \/ WriteManifestFails

BuildSpec == BuildInit /\ [][BuildNext]_vars

\* the first render (state {}) and the start of the fetch
PageInit ==
    /\ response \in Responses
    /\ fetchPc = "fetching"
    /\ chainValue = NullValue
    /\ cancelled = FALSE
    /\ thumbsManifest = ObjectValue(EmptyObject)
    /\ pageItems \in ItemSets
    /\ displaySrcs = RenderedSrcs(thumbsManifest, pageItems)
    /\ pageError = FALSE
    /\ LayoutIdle
    /\ BuildIdle
    /\ GalleryIdle
    /\ ResizeIdle
    /\ VirtualIdle
    /\ SearchIdle
    /\ LightboxIdle
    /\ EarlierIdle

PageNext ==
    \/ FetchRejects
    \/ FetchResolves
    \/ FirstThen
    \/ SecondThen
    \/ CatchHandler
    \/ PageCleanup

PageSpec == PageInit /\ [][PageNext]_vars

\* the first list of a gallery: the first n photos of the site, for no
\* photo, fewer photos than workers, and more photos than workers
FirstLists == { [j \in 1..n |-> j] : n \in {0, 2, MaxGalleryItems} }

\* the lists a change of the items prop brings
ChangedLists == { <<>>, <<4, 1>> }

\* the gallery is mounted with its first list and the effect has started
GalleryInit ==
    /\ mounted = TRUE
    /\ \E list \in FirstLists : runs = <<NewRun(list)>>
    /\ withRatios = <<>>
    /\ writeLog = <<>>
    /\ LayoutIdle
    /\ BuildIdle
    /\ PageIdle
    /\ ResizeIdle
    /\ VirtualIdle
    /\ SearchIdle
    /\ LightboxIdle
    /\ EarlierIdle

GalleryNext ==
    \/ \E r \in 1..Len(runs) : \E i \in runs[r].loading : LoadCompletes(r, i)
    \/ \E r \in 1..Len(runs) : Publish(r)
    \/ \E list \in ChangedLists : ItemsChange(list)
    \/ Unmount

GallerySpec == GalleryInit /\ [][GalleryNext]_vars

\* the content widths of the gallery's element, in CSS pixels
ContentWidths == { Num(320), Frac(1281, 2), Num(1024), Num(1280) }

\* the gallery is mounted and rendered at its first width:
\* setWidth(Math.floor(el.getBoundingClientRect().width))
ResizeInit ==
    /\ \E first \in ContentWidths :
          /\ width = Floor(first)
          /\ memoRows = RowsFor(Floor(first))
    /\ queuedWidth = <<>>
    /\ notified = <<>>
    /\ laidOut = <<>>
    /\ LayoutIdle
    /\ BuildIdle
    /\ PageIdle
    /\ GalleryIdle
    /\ VirtualIdle
    /\ SearchIdle
    /\ LightboxIdle
    /\ EarlierIdle

ResizeNext ==
    \/ \E contentWidth \in ContentWidths : ResizeNotify(contentWidth)
    \/ Render

ResizeSpec == ResizeInit /\ [][ResizeNext]_vars


\* the heights a row can have (computeRows keeps them between 80 and about
\* 1.06 times the base row height)
RowHeights == { 100, 250 }

\* the row sets: n rows whose heights alternate between two values
HeightLists ==
    { [i \in 1..n |-> IF i % 2 = 1 THEN h[1] ELSE h[2]] :
        n \in 0..MaxVirtualRows, h \in RowHeights \X RowHeights }

\* positions of the gallery's top edge: below the top of the window, at it,
\* and scrolled above it
RectTops == { 300, 0, -700, -1400 }

InnerHeights == { 600 }

\* the gallery is mounted: the effect has run and called onScroll()
VirtualInit ==
    /\ totalHeights \in HeightLists
    /\ cumulative = CumulativeOf(totalHeights)
    /\ rectTop \in RectTops
    /\ innerHeight \in InnerHeights
    /\ visibleRange = [start |-> 0, end |-> 0]
    /\ raf = 1
    /\ rangeCurrent = FALSE
    /\ LayoutIdle
    /\ BuildIdle
    /\ PageIdle
    /\ GalleryIdle
    /\ ResizeIdle
    /\ SearchIdle
    /\ LightboxIdle
    /\ EarlierIdle

VirtualNext ==
    \/ \E top \in RectTops : Scroll(top)
    \/ FrameCallback
    \/ \E heights \in HeightLists : RowsChange(heights)

VirtualSpec == VirtualInit /\ [][VirtualNext]_vars


\* the non-decreasing arrays over a few values, equal neighbours included
SortedArrays ==
    UNION { { arr \in [1..n -> 0..3] : \A i \in 1..(n - 1) : arr[i] <= arr[i + 1] } :
            n \in 0..MaxSearchLen }

\* targets below, at and above every element
TargetsFor(arr) ==
    {0} \cup UNION { { arr[i] - 1, arr[i], arr[i] + 1 } : i \in 1..Len(arr) }

\* the array is the cumulative offsets of a row set or, given directly, any
\* non-decreasing array
SearchInit ==
    /\ searchHeights \in HeightLists
    /\ searchArr \in {CumulativeOf(searchHeights)}
                     \cup (IF searchHeights = <<>> THEN SortedArrays ELSE {})
    /\ searchTarget \in TargetsFor(searchArr)
    /\ searchResult = 0
    /\ spc = "args"
    /\ LayoutIdle
    /\ BuildIdle
    /\ PageIdle
    /\ GalleryIdle
    /\ ResizeIdle
    /\ VirtualIdle
    /\ LightboxIdle
    /\ EarlierIdle

SearchNext == CallLowerBound

SearchSpec == SearchInit /\ [][SearchNext]_vars


ScrollPositions == { 0, 500 }

\* the URLs the links of the page's header lead to
AnchorUrls == { <<"#about">>, <<"#hero">> }

\* the URLs the page can be loaded with: no hash, an anchor, a lightbox
\* hash of any digits
LoadUrls == { <<>>, <<"#about">> } \cup { <<"#lb=", d>> : d \in 0..MaxImages }

\* the page has loaded and the initial-hash effect has run
LightboxInit ==
    /\ imageCount \in 0..MaxImages
    /\ \E url \in LoadUrls :
          /\ history = <<url>>
          /\ lightboxIndex = DeepLinkIndex(url, imageCount)
          /\ previousUrlRef = IF ParsedLightboxHash(url) # <<>> THEN <<url>> ELSE <<>>
    /\ hpos = 1
    /\ exif = <<>>
    /\ parses = WithParseOf({}, lightboxIndex, imageCount)
    /\ savedScrollRef = 0
    /\ scrollY \in ScrollPositions
    /\ pendingScrollTo = <<>>
    /\ crashed = RenderThrowsAt(lightboxIndex, imageCount)
    /\ openedBy = IF lightboxIndex # <<>> THEN "deeplink" ELSE "none"
    /\ lastEvent = "load"
    /\ lastClosed = "none"
    /\ LayoutIdle
    /\ BuildIdle
    /\ PageIdle
    /\ GalleryIdle
    /\ ResizeIdle
    /\ VirtualIdle
    /\ SearchIdle
    /\ EarlierIdle

LightboxNext ==
    \/ \E index \in 0..(MaxImages - 1) : openLightbox(index)
    \/ closeLightbox
    \/ \E y \in ScrollPositions : Back(y)
    \/ \E y \in ScrollPositions : Forward(y)
    \/ showNext
    \/ showPrev
    \/ \E image \in 0..(MaxImages - 1) : \E wasCancelled, withData \in BOOLEAN :
          ParseEnds(<<image, wasCancelled>>, withData)
    \/ ScrollTimer
    \/ \E url \in AnchorUrls : \E y \in ScrollPositions : FollowAnchor(url, y)

LightboxSpec == LightboxInit /\ [][LightboxNext]_vars


\* the most images of the earlier App
MaxImagesV1 == 4

EarlierInit ==
    /\ imageCountV1 \in 1..MaxImagesV1
    /\ lightboxIndexV1 = <<>>
    /\ exifV1 = <<>>
    /\ parsesV1 = {}
    /\ LayoutIdle
    /\ BuildIdle
    /\ PageIdle
    /\ GalleryIdle
    /\ ResizeIdle
    /\ VirtualIdle
    /\ SearchIdle
    /\ LightboxIdle

EarlierNext ==
    \/ \E index \in 0..(MaxImagesV1 - 1) : openLightboxV1(index)
    \/ closeLightboxV1
    \/ showNextV1
    \/ showPrevV1
    \/ \E image \in 0..(MaxImagesV1 - 1) : \E wasCancelled, withData \in BOOLEAN :
          ParseEndsV1(<<image, wasCancelled>>, withData)

EarlierSpec == EarlierInit /\ [][EarlierNext]_vars

(***************************************************************************)
(* The two programs side by side                                           *)
(***************************************************************************)
Init == LayoutInit \/ BuildInit \/ PageInit \/ GalleryInit \/ ResizeInit \/ VirtualInit \/ SearchInit \/ LightboxInit \/ EarlierInit
Next == LayoutNext \/ BuildNext \/ PageNext \/ GalleryNext \/ ResizeNext \/ VirtualNext \/ SearchNext \/ LightboxNext \/ EarlierNext
Spec == Init /\ [][Next]_vars

(***************************************************************************)
(* Claims about computeRows, checked under LayoutSpec                      *)
(***************************************************************************)
Returned == lpc = "returned"
\* the call the claims are about: a positive width and a non-empty list
ProperCall == Returned /\ containerWidth > 0 /\ Len(items) > 0

RowSet == 1..Len(rows)
\* the input items of row r, in row order
ItemsOfRow(r) == [k \in 1..Len(rows[r].items) |-> rows[r].items[k].item]

RECURSIVE ConcatRows(_)
ConcatRows(r) == IF r > Len(rows) THEN <<>> ELSE ItemsOfRow(r) \o ConcatRows(r + 1)

RECURSIVE SumWidths(_)
SumWidths(sized) ==
    IF sized = <<>> THEN Num(0) ELSE FracAdd(Head(sized).width, SumWidths(Tail(sized)))

\* sum of the row's final widths plus the gaps between them
RowExtent(r) ==
    FracAdd(SumWidths(rows[r].items), Num(gap * (Len(rows[r].items) - 1)))

\* |f - g| <= 1
WithinRounding(f, g) ==
    /\ FracLeq(FracSub(f, g), Num(1))
    /\ FracLeq(FracSub(g, f), Num(1))

\* 1.2 times the exact-fill height of row r, from the arguments of the call
CapOfRow(r) ==
    FracMul(FracDiv(Num(containerWidth - gap * (Len(rows[r].items) - 1)),
                    SumAspect(ItemsOfRow(r))),
            Frac(12, 10))

\* baseRowHeight * (1 + (seed - 0.5) * 0.12), seed from the row's first item
JitteredTargetOfRow(r) ==
    FracMul(Num(baseRowHeight),
            FracAdd(Num(1),
                    FracMul(FracSub(getFilenameSeed(rows[r].items[1].item.src),
                                    Frac(1, 2)),
                            Frac(12, 100))))

\* sum(aspectRatio_i * baseRowHeight) over the row, plus extra
EstimateOfRow(r, extra) ==
    FracAdd(FracMul(SumAspect(ItemsOfRow(r)), Num(baseRowHeight)), extra)

Threshold == FracMul(Num(containerWidth), Frac(115, 100))

\* C1: for a positive width and a non-empty list, concatenating the rows'
\* items in row order gives exactly the input list: nothing dropped,
\* nothing duplicated, nothing reordered.
C1_EveryItemInExactlyOneRow ==
    ProperCall => ConcatRows(1) = items

C1_Witness ==
    /\ ProperCall
    /\ Len(items) = 3
    /\ Len(rows) = 2
    /\ \E r \in RowSet : Len(rows[r].items) = 2

\* C2 as stated: no single-item row is higher than 1.2 times its exact-fill
\* height.  Refuted by a container narrower than 80 * aspectRatio / 1.2.
C2_SingleItemRowWithinCap ==
    ProperCall =>
        \A r \in RowSet :
            Len(rows[r].items) = 1 => FracLeq(rows[r].height, CapOfRow(r))

\* C2 amended: a single-item row is higher than 1.2 times its exact-fill
\* height only when that bound is below the floor 80, and then its height
\* is exactly 80.
C2_SingleItemRowWithinCapOrAtFloor ==
    ProperCall =>
        \A r \in RowSet :
            Len(rows[r].items) = 1 =>
                \/ FracLeq(rows[r].height, CapOfRow(r))
                \/ /\ rows[r].height = Num(HeightFloor)
                   /\ FracLess(CapOfRow(r), Num(HeightFloor))

\* a single-item row held down by the cap, above the floor
C2_Witness ==
    /\ ProperCall
    /\ \E r \in RowSet :
          /\ Len(rows[r].items) = 1
          /\ rows[r].height = CapOfRow(r)
          /\ FracLess(Num(HeightFloor), rows[r].height)
          /\ FracLess(rows[r].height, JitteredTargetOfRow(r))

IsC3Call ==
    /\ Returned
    /\ containerWidth = 900
    /\ gap = 10
    /\ baseRowHeight = 200
    /\ Len(items) = 3
    /\ \A i \in 1..3 : items[i].aspectRatio = Num(1)

\* C3 as stated: three items of ratio 1.0 at width 900, gap 10, base height
\* 200 come back as one row of three whose widths sum to 880 within rounding.
C3_ThreeSquaresFillOneRow ==
    IsC3Call =>
        /\ Len(rows) = 1
        /\ Len(rows[1].items) = 3
        /\ WithinRounding(SumWidths(rows[1].items), Num(900 - 2 * 10))

\* C4 as stated: every row fills the container: its widths plus its gaps
\* come to containerWidth within rounding.
C4_EveryRowFillsContainer ==
    ProperCall =>
        \A r \in RowSet : WithinRounding(RowExtent(r), Num(containerWidth))

\* C5: no row is lower than the floor of 80.
C5_HeightAtLeastFloor ==
    Returned =>
        \A r \in RowSet :
            /\ FracLeq(Num(HeightFloor), rows[r].height)
            /\ \A k \in 1..Len(rows[r].items) :
                  FracLeq(Num(HeightFloor), rows[r].items[k].height)

\* a row that the floor lifts above its cap
C5_Witness ==
    /\ ProperCall
    /\ \E r \in RowSet :
          /\ rows[r].height = Num(HeightFloor)
          /\ FracLess(CapOfRow(r), Num(HeightFloor))

\* C7: rows are broken greedily at 1.15 * containerWidth: no row is empty;
\* a row of two or more items fits under the threshold at the base height;
\* the first item of the next row would not have fitted.
C7_GreedyBreakAtThreshold ==
    ProperCall =>
        /\ Len(rows) > 0
        /\ \A r \in RowSet :
              /\ Len(rows[r].items) > 0
              /\ Len(rows[r].items) >= 2 =>
                    FracLeq(EstimateOfRow(r, Num(gap * (Len(rows[r].items) - 1))),
                            Threshold)
              /\ r < Len(rows) =>
                    FracLess(Threshold,
                             EstimateOfRow(r,
                                 FracAdd(FracMul(rows[r + 1].items[1].item.aspectRatio,
                                                 Num(baseRowHeight)),
                                         Num(gap * Len(rows[r].items)))))

\* a row of two items closed by a third, and an item too wide for the
\* threshold in a row of its own
C7_Witness ==
    /\ ProperCall
    /\ \E r \in RowSet : Len(rows[r].items) = 2 /\ r < Len(rows)
    /\ \E r \in RowSet :
          /\ Len(rows[r].items) = 1
          /\ FracLess(Threshold, EstimateOfRow(r, Num(0)))

\* height is the clamp of target to the floor and the cap, both respected
ClampedBothWays(height, target, cap) ==
    /\ FracLeq(Num(HeightFloor), height)
    /\ FracLeq(height, cap)
    /\ height \in {target, cap, Num(HeightFloor)}

\* height = max(80, min(target, cap))
ClampedFloorLast(height, target, cap) ==
    /\ FracLeq(Num(HeightFloor), height)
    /\ height \in {target, cap, Num(HeightFloor)}
    /\ height # Num(HeightFloor) => FracLeq(height, target) /\ FracLeq(height, cap)
    /\ height = Num(HeightFloor) =>
          FracLeq(target, Num(HeightFloor)) \/ FracLeq(cap, Num(HeightFloor))

SizesFollowHeight(r) ==
    \A k \in 1..Len(rows[r].items) :
        /\ rows[r].items[k].height = rows[r].height
        /\ rows[r].items[k].width =
              FracMul(rows[r].items[k].item.aspectRatio, rows[r].height)

\* C8 as stated: every row's height is the jittered target clamped to be
\* both at least 80 and at most 1.2 times the exact-fill height, and every
\* item has that height and width aspectRatio * height.
C8_HeightClampedBothWays ==
    ProperCall =>
        \A r \in RowSet :
            /\ ClampedBothWays(rows[r].height, JitteredTargetOfRow(r), CapOfRow(r))
            /\ SizesFollowHeight(r)

\* C8 amended: every row's height is max(80, min(jittered target, 1.2 times
\* the exact-fill height)): the floor is applied last and wins over the cap.
\* Every item has that height and width aspectRatio * height.
C8_HeightClampedFloorLast ==
    ProperCall =>
        \A r \in RowSet :
            /\ ClampedFloorLast(rows[r].height, JitteredTargetOfRow(r), CapOfRow(r))
            /\ SizesFollowHeight(r)

\* a row of several items at its jittered target, next to a capped row
C8_Witness ==
    /\ ProperCall
    /\ \E r \in RowSet :
          /\ Len(rows[r].items) >= 2
          /\ rows[r].height = JitteredTargetOfRow(r)
          /\ FracLess(rows[r].height, CapOfRow(r))
    /\ \E r \in RowSet :
          /\ rows[r].height = CapOfRow(r)
          /\ FracLess(rows[r].height, JitteredTargetOfRow(r))

(***************************************************************************)
(* Claims about the thumbnail build, checked under BuildSpec               *)
(***************************************************************************)
\* the target widths whose variants the latest loop body wrote
WrittenByLastStep == { TargetWidths[k] : k \in 1..lastDone.written }

\* C9: the build never upscales: the variant a loop body has just written
\* for target width w is min(native width, w) pixels wide.
C9_VariantWidthIsMinOfNativeAndTarget ==
    \A w \in WrittenByLastStep :
        /\ OutName(lastDone.file.base, w) \in DOMAIN thumbs
        /\ thumbs[OutName(lastDone.file.base, w)] = Min(lastDone.file.width, w)

\* a 300 pixel source whose three variants are all 300 pixels wide
C9_Witness ==
    /\ lastDone.written = 3
    /\ lastDone.file.width = 300
    /\ \A w \in {400, 800, 1200} : thumbs[OutName(lastDone.file.base, w)] = 300

IsSrcsetKey(key) == key[Len(key)] = "__srcset"

\* the URLs a manifest entry names
UrlsOfEntry(m, key) ==
    IF IsSrcsetKey(key)
    THEN { m[key][k].url : k \in 1..Len(m[key]) }
    ELSE { m[key] }

\* C10: after a successful run every key of the written manifest resolves
\* to files that exist in public/thumbs: the URL of a plain key and every
\* URL of a __srcset key.
C10_ManifestResolvesToExistingFiles ==
    bpc = "done" =>
        \A key \in DOMAIN manifestFile :
            \A url \in UrlsOfEntry(manifestFile, key) :
                FileOfUrl(url) \in DOMAIN thumbs

\* a successful run over two images of different names
C10_Witness ==
    /\ bpc = "done"
    /\ exitCode = 0
    /\ Cardinality(DOMAIN manifestFile) >= 8
    /\ Cardinality(DOMAIN thumbs) >= 6

\* the images of the first n files of a walk
ImagesOf(walk, n) == { walk[i] : i \in { j \in 1..n : isImage(walk[j]) } }

\* the images whose loop body has completed (none is known after a failure)
ProcessedFiles ==
    CASE bpc = "photos" -> ImagesOf(photos, cursor)
      [] bpc = "banner" -> ImagesOf(photos, Len(photos)) \cup ImagesOf(banners, cursor)
      [] bpc \in {"write", "done"} ->
            ImagesOf(photos, Len(photos)) \cup ImagesOf(banners, Len(banners))
      [] OTHER -> {}

\* the files of public/thumbs the loop body of an image writes
OutputsOf(file) == { OutName(file.base, TargetWidths[k]) : k \in 1..Len(TargetWidths) }

\* C11 as stated: in one run, two distinct source images are never written
\* to the same output file.
C11_NoTwoSourcesShareAnOutputFile ==
    \A f, g \in ProcessedFiles :
        PathOf(f) # PathOf(g) => OutputsOf(f) \cap OutputsOf(g) = {}

\* the latest loop body threw before its third file was written
LastBodyThrew == lastDone.file # NoFile /\ lastDone.written < Len(TargetWidths)

\* C12: the build is fail-fast and leaves no partial manifest: once a loop
\* body has thrown the run has ended with status 1, nothing more can happen
\* and the manifest file is not written; the manifest file is written only
\* by a run that processed every image of both walks.
C12_FailFastNoPartialManifest ==
    /\ LastBodyThrew => bpc = "failed"
    /\ bpc = "failed" =>
          /\ exitCode = 1
          /\ manifestFile = "absent"
          /\ ~ENABLED BuildNext
    /\ bpc \in {"photos", "banner", "write"} =>
          /\ exitCode = "running"
          /\ manifestFile = "absent"
    /\ bpc = "done" =>
          /\ exitCode = 0
          /\ \A f \in ImagesOf(photos, Len(photos)) \cup ImagesOf(banners, Len(banners)) :
                <<"/assets/", f.base, f.ext>> \in DOMAIN manifestFile

\* a run that fails on its second image, after two of that image's files
C12_Witness ==
    /\ bpc = "failed"
    /\ cursor >= 1
    /\ lastDone.written = 2
    /\ Cardinality(DOMAIN manifest) >= 4

ExpectedSrcset(baseName) ==
    << [url |-> <<"/thumbs/", baseName, "-", 400, ".webp">>, w |-> 400],
       [url |-> <<"/thumbs/", baseName, "-", 800, ".webp">>, w |-> 800],
       [url |-> <<"/thumbs/", baseName, "-", 1200, ".webp">>, w |-> 1200] >>

\* C13: every processed image has the same two entries under both path
\* forms: '/assets/<filename>' and '/src/<path below src>' both map to the
\* image's 800 thumbnail, and their '__srcset' keys to the 400, 800, 1200
\* descriptor in ascending order.
C13_BothPathFormsRegistered ==
    \A f \in ProcessedFiles :
        \A key \in {ProdKey(f), DevKey(f)} :
            /\ key \in DOMAIN manifest
            /\ manifest[key] = <<"/thumbs/", f.base, "-", 800, ".webp">>
            /\ Append(key, "__srcset") \in DOMAIN manifest
            /\ manifest[Append(key, "__srcset")] = ExpectedSrcset(f.base)

\* two processed images of one base name and different extensions
C13_Witness ==
    \E f, g \in ProcessedFiles :
        /\ f.base = g.base
        /\ f.ext # g.ext
        /\ ProdKey(f) # ProdKey(g)
        /\ manifest[ProdKey(f)] = manifest[ProdKey(g)]

\* C14 as stated: for every photo the build processed, the gallery's lookup
\* of the photo's runtime URL gives its default thumbnail, served from the
\* source tree and served from a built bundle alike.
C14_LookupFindsThumbnailDevAndBundle ==
    bpc = "done" =>
        \A f \in { g \in ProcessedFiles : GalleryShows(g) } :
            \A served \in {"dev", "bundle"} :
                findThumbnail(RuntimeUrl(f, served), manifestFile)
                    = <<"/thumbs/", f.base, "-", 800, ".webp">>

\* the manifest's entry for the item's URL, <<>> if it has none
ThumbnailOf(src) ==
    LET key == <<"/assets/">> \o LastSegment(src)
    IN  IF thumbsManifest.kind = "object" /\ key \in DOMAIN thumbsManifest.obj
        THEN thumbsManifest.obj[key]
        ELSE <<>>

\* C15: whatever the startup fetch does (network error, non-OK status,
\* malformed JSON, JSON null, a valid object), no render throws, the
\* manifest state is an object (after a valid object: that object, unless
\* the effect was cleaned up first), and every gallery item is displayed
\* from its manifest thumbnail or, when it has none, from its own URL.
C15_ManifestConsumptionNeverFailsHard ==
    /\ ~pageError
    /\ thumbsManifest.kind = "object"
    /\ (fetchPc = "settled" /\ ~cancelled /\ response.kind = "object")
          => thumbsManifest.obj = response.obj
    /\ DOMAIN displaySrcs = pageItems
    /\ \A src \in pageItems :
          displaySrcs[src] = IF ThumbnailOf(src) # <<>> THEN ThumbnailOf(src) ELSE src

\* the chain has settled after JSON null, with an item on the page
C15_WitnessNull ==
    /\ fetchPc = "settled"
    /\ ~cancelled
    /\ response.kind = "null"
    /\ pageItems # {}

\* loading the k-th photo fails, or reports natural height 0
LoadFails(k) == ImageOf(k).kind = "error" \/ ImageOf(k).naturalHeight = 0

\* the entries the runs have stored so far, each with its photo
StoredEntries ==
    UNION { { [k |-> runs[r].items[i + 1], entry |-> runs[r].enriched[i]] :
                i \in DOMAIN runs[r].enriched } : r \in 1..Len(runs) }

\* 0.9 + 0.2 * seed: the perturbation of the photo's ratio
PerturbationOf(k) == FracAdd(Frac(9, 10), FracMul(getFilenameSeed(SrcOf(k)), Frac(2, 10)))

\* the ratio photo k is to carry: 1.0 perturbed when its load fails, its
\* natural ratio perturbed and clamped to [0.3, 3.5] otherwise
CarriedRatio(k) ==
    IF LoadFails(k) THEN PerturbationOf(k)
    ELSE LET natural == Frac(ImageOf(k).naturalWidth, ImageOf(k).naturalHeight)
             perturbed == FracMul(natural, PerturbationOf(k))
         IN  IF FracLess(perturbed, Frac(3, 10)) THEN Frac(3, 10)
             ELSE IF FracLess(Frac(35, 10), perturbed) THEN Frac(35, 10)
             ELSE perturbed

\* C16 as stated: an item whose load fails (or reports natural height 0)
\* carries the aspect ratio 1.0 exactly.
C16_FailedItemCarriesExactlyOne ==
    \A e \in StoredEntries : LoadFails(e.k) => e.entry.aspectRatio = Num(1)

\* C16, amended: a failed load (or natural height 0) resolves 1.0 and the
\* item carries 1.0 times its perturbation, a value in [0.9, 1.1); every
\* other item carries its own perturbed, clamped ratio; a run that sets the
\* layout state sets it to one entry per item of its list, failed or not.
C16_FailedItemCarriesPerturbedOne ==
    /\ \A e \in StoredEntries :
          /\ e.entry.aspectRatio = CarriedRatio(e.k)
          /\ LoadFails(e.k) =>
                /\ FracLeq(Frac(9, 10), e.entry.aspectRatio)
                /\ FracLess(e.entry.aspectRatio, Frac(11, 10))
    /\ writeLog # <<>> =>
          LET run == runs[writeLog[Len(writeLog)]]
          IN  /\ Len(withRatios) = Len(run.items)
              /\ \A j \in 1..Len(withRatios) :
                    /\ withRatios[j].src = SrcOf(run.items[j])
                    /\ withRatios[j].aspectRatio = CarriedRatio(run.items[j])
                    /\ withRatios[j].globalIndex = j - 1

\* the layout state holds a list with a failed load, a zero-height image and
\* images that loaded
C16_Witness ==
    /\ \E j \in 1..Len(withRatios) : withRatios[j].src = SrcOf(2)
    /\ \E j \in 1..Len(withRatios) : withRatios[j].src = SrcOf(3)
    /\ \E j \in 1..Len(withRatios) : withRatios[j].src = SrcOf(4)
    /\ Len(withRatios) > Concurrency

\* C17: at every moment, at most 8 loads started by one run are pending.
C17_AtMostEightLoadsPending ==
    \A r \in 1..Len(runs) : Cardinality(runs[r].loading) <= 8

\* a run over more than 8 items with 8 loads pending, one of them the ninth
C17_Witness ==
    \E r \in 1..Len(runs) :
        /\ Len(runs[r].items) > 8
        /\ Cardinality(runs[r].loading) = 8
        /\ 8 \in runs[r].loading

\* C18: the layout state is only ever set by the run started for the
\* current item list, while the gallery is mounted: a run whose items were
\* replaced, or whose gallery unmounted, never sets it.
C18_StaleRunNeverWrites ==
    [][writeLog' # writeLog =>
          /\ writeLog' = Append(writeLog, Len(runs))
          /\ mounted
          /\ ~runs[Len(runs)].cancelled
          /\ withRatios' = EnrichedList(runs[Len(runs)])]_vars

\* a stale run over several items has ended after the current run set the
\* layout state, and has not set it
C18_Witness ==
    /\ Len(runs) = 2
    /\ Len(runs[1].items) > 1
    /\ runs[1].settled
    /\ runs[2].settled
    /\ writeLog = <<2>>
    /\ withRatios = EnrichedList(runs[2])
    /\ Len(withRatios) > 0

\* C19 as stated: while the current run is in flight, the rows are computed
\* from the ratios resolved so far.
C19_RowsFromRatiosResolvedSoFar ==
    (mounted /\ ~runs[Len(runs)].settled) =>
        \A i \in DOMAIN runs[Len(runs)].enriched :
            \E j \in 1..Len(RowsInput) : RowsInput[j] = runs[Len(runs)].enriched[i]

\* the notifications of the burst each set a width other than the one before
BurstOfDifferentWidths ==
    /\ Len(notified) >= 2
    /\ \A n \in 2..Len(notified) : notified[n] # notified[n - 1]

\* C20 as stated: a burst of consecutive resize notifications with different
\* widths does not cause one row recomputation per notification: fewer
\* widths are laid out than were notified.
C20_BurstNotLaidOutPerNotification ==
    BurstOfDifferentWidths => Len(laidOut) < Len(notified)

\* the photo an item of the resized gallery shows (its src is SrcOf(k))
PhotoOfSrc(src) == CHOOSE k \in 1..3 : SrcOf(k) = src

\* the items of the rows the gallery has computed
LaidOutItems ==
    UNION { { memoRows[r].items[j].item : j \in 1..Len(memoRows[r].items) } :
            r \in 1..Len(memoRows) }

\* C21 as stated: every aspect ratio the gallery hands to computeRows is the
\* item's natural ratio times its perturbation 1 + (seed - 0.5) * 0.2,
\* clamped to [0.3, 3.5].
C21_RatiosArePerturbedNaturalRatios ==
    \A it \in LaidOutItems : it.aspectRatio = CarriedRatio(PhotoOfSrc(it.src))

\* the indices a run has claimed so far
Claimed(run) ==
    { i \in 0..(Len(run.items) - 1) : i < run.nextIndex }

\* C30: in every run, for every item count and completion order, the
\* claimed indices are a prefix of 0..n-1 and each is either loading or
\* stored, never both; a load is started only for the index no worker has
\* taken yet; the entry stored at i is derived from items[i] and carries
\* __globalIndex = i; the layout state is set at most once per run, only
\* when no load of the run is pending, to a list of n entries, none missing.
C30_EachIndexLoadedOnceAndPublishedWhole ==
    /\ [](\A r \in 1..Len(runs) :
            LET run == runs[r]
            IN  /\ run.loading \cup DOMAIN run.enriched = Claimed(run)
                /\ run.loading \cap DOMAIN run.enriched = {}
                /\ run.settled => DOMAIN run.enriched = 0..(Len(run.items) - 1)
                /\ \A i \in DOMAIN run.enriched :
                      /\ run.enriched[i].src = SrcOf(run.items[i + 1])
                      /\ run.enriched[i].globalIndex = i
                      /\ run.enriched[i].aspectRatio = CarriedRatio(run.items[i + 1]))
    /\ [](\A a, b \in 1..Len(writeLog) : a # b => writeLog[a] # writeLog[b])
    /\ [][/\ \A r \in 1..Len(runs) :
               \A i \in runs'[r].loading \ runs[r].loading :
                   /\ i = runs[r].nextIndex
                   /\ i \notin runs[r].loading \cup DOMAIN runs[r].enriched
          /\ writeLog' # writeLog =>
               LET run == runs[writeLog'[Len(writeLog')]]
               IN  /\ run.loading = {}
                   /\ ~run.settled
                   /\ Len(withRatios') = Len(run.items)
                   /\ \A j \in 1..Len(withRatios') : withRatios'[j] = run.enriched[j - 1]]_vars

\* a run over more items than workers has ended all its workers and set the
\* layout state to one entry per item
C30_Witness ==
    /\ writeLog = <<1>>
    /\ Len(runs[1].items) > Concurrency
    /\ Len(withRatios) = Len(runs[1].items)
    /\ runs[1].nextIndex = Len(runs[1].items) + Concurrency

\* the rows of the current row set, counted from 0
RowIndices == 0..(Len(totalHeights) - 1)

\* row i reaches into the window extended by 800 above and below, in the
\* gallery's coordinates (the window's top edge is at -rectTop)
IntersectsExtendedViewport(i) ==
    /\ At(cumulative, i) < (0 - rectTop) + innerHeight + 800
    /\ At(cumulative, i + 1) > (0 - rectTop) - 800

WindowIsValid ==
    /\ 0 <= startIndex
    /\ startIndex <= endIndex
    /\ endIndex <= Len(totalHeights)
    /\ topSpacer = At(cumulative, startIndex)
    /\ topSpacer >= 0
    /\ bottomSpacer >= 0
    /\ topSpacer + (At(cumulative, endIndex) - At(cumulative, startIndex)) + bottomSpacer
          = totalHeight

\* C29 as stated: at every render, also the one that follows a change of
\* the row set, the rendered window is a valid range and the spacers
\* account for the rest of the total height.
C29_WindowValidAtEveryRender ==
    /\ (0 <= startIndex /\ startIndex <= endIndex /\ endIndex <= Len(totalHeights))
    /\ WindowIsValid

\* the offsets follow the recurrence of the row heights and strictly increase
OffsetsFollowHeights(heights, cum) ==
    /\ Len(cum) = Len(heights) + 1
    /\ At(cum, 0) = 0
    /\ \A i \in 0..(Len(heights) - 1) :
          /\ At(cum, i + 1) = At(cum, i) + At(heights, i)
                              + (IF i = Len(heights) - 1 THEN 0 ELSE 14)
          /\ At(cum, i + 1) > At(cum, i)

\* C23: on a non-decreasing array lowerBound returns the smallest index
\* whose element is >= target, or the array's length when there is none
\* (and the call returns, for the empty array too); the cumulative offsets
\* of a row set start at 0, grow by row height plus gap (no gap after the
\* last row) and strictly increase.
C23_LowerBoundAndOffsets ==
    /\ spc = "returned" =>
          /\ searchResult \in 0..Len(searchArr)
          /\ \A i \in 0..(searchResult - 1) : At(searchArr, i) < searchTarget
          /\ searchResult < Len(searchArr) => At(searchArr, searchResult) >= searchTarget
    /\ OffsetsFollowHeights(searchHeights, CumulativeOf(searchHeights))

\* a call whose target equals two neighbouring elements, the first of them
\* not at the front, has returned
C23_Witness ==
    /\ spc = "returned"
    /\ searchResult >= 1
    /\ searchResult + 1 < Len(searchArr)
    /\ At(searchArr, searchResult) = searchTarget
    /\ At(searchArr, searchResult + 1) = searchTarget

\* a call on the empty array has returned
C23_WitnessEmpty == spc = "returned" /\ searchArr = <<>> /\ searchResult = 0

(***************************************************************************)
(* The lightbox                                                            *)
(***************************************************************************)
LightboxOpen == lightboxIndex # <<>>

\* C24: whenever the lightbox is open, lightboxIndex is a valid index into
\* allImages (0 <= lightboxIndex < allImages.length), whatever clicks,
\* showNext, showPrev, closeLightbox, Back, Forward and page loads with a
\* lightbox hash of any digits came before, so that allImages[lightboxIndex]
\* is defined when it is rendered.
C24_OpenIndexIsValid ==
    LightboxOpen => (0 <= lightboxIndex[1] /\ lightboxIndex[1] < imageCount /\ ~crashed)

\* C25: Back after a gallery click opened the lightbox closes it:
\* lightboxIndex and exif are null, the URL is the one from before the
\* open, and the scroll position saved at the open is the one the timer
\* restores.  openLightbox pushes exactly one history entry per call, also
\* when the hash already is that of the index: the entries up to the
\* current one stay, one entry follows them and is the current one.
C25_BackClosesWhatAClickOpened ==
    /\ []((lastEvent = "back" /\ lastClosed = "click") =>
            /\ lightboxIndex = <<>>
            /\ exif = <<>>
            /\ CurrentUrl = previousUrlRef[1]
            /\ pendingScrollTo = <<savedScrollRef>>)
    /\ [][lastEvent' = "openLightbox" =>
            /\ hpos' = hpos + 1
            /\ Len(history') = hpos + 1
            /\ SubSeq(history', 1, hpos) = SubSeq(history, 1, hpos)
            /\ history'[hpos'] = <<"#lb=", lightboxIndex'[1]>>
            /\ previousUrlRef' = <<history[hpos]>>
            /\ savedScrollRef' = scrollY]_vars
    /\ [][(openedBy = "click" /\ lastEvent' \in {"back", "showNext", "showPrev", "parseEnds"}) =>
            /\ previousUrlRef' = previousUrlRef
            /\ savedScrollRef' = savedScrollRef
            /\ SubSeq(history', 1, hpos - 1) = SubSeq(history, 1, hpos - 1)
            /\ (lastEvent' = "back" => hpos' = hpos - 1)]_vars
    /\ [][lastEvent' = "scrollTimer" => scrollY' = pendingScrollTo[1]]_vars

\* Back has closed a lightbox that a click on the image of a '#lb=' URL
\* had opened over that same URL; the saved scroll position waits
C25_Witness ==
    /\ lastEvent = "back"
    /\ lastClosed = "click"
    /\ IsLightboxHash(CurrentUrl)
    /\ history[hpos + 1] = CurrentUrl
    /\ pendingScrollTo = <<500>>
    /\ scrollY = 0

\* C26: after closeLightbox the lightbox is closed, exif is null and the
\* URL carries no '#lb=' hash, whether a click, a Forward navigation or a
\* deep link had opened the lightbox.
C26_CloseRemovesTheLightboxHash ==
    lastEvent = "closeLightbox" =>
        /\ lightboxIndex = <<>>
        /\ exif = <<>>
        /\ ~IsLightboxHash(CurrentUrl)

RECURSIVE ShowNextTimes(_, _, _)
\* showNextUpdater applied k times
ShowNextTimes(k, idx, n) ==
    IF k = 0 THEN idx ELSE ShowNextTimes(k - 1, showNextUpdater(idx, n), n)

\* C28: with n = allImages.length >= 1 and the lightbox open at i,
\* showNext gives (i+1) mod n, showPrev gives (i-1) mod n, showNext then
\* showPrev returns to i, n showNext in a row return to i; both leave a
\* closed lightbox closed.
C28_ShowNextAndShowPrevCycle ==
    /\ []((LightboxOpen /\ ~crashed) =>
            LET i == lightboxIndex[1]
                n == imageCount
            IN  /\ n >= 1
                /\ showNextUpdater(<<i>>, n) = <<(i + 1) % n>>
                /\ showPrevUpdater(<<i>>, n) = <<(i - 1) % n>>
                /\ showPrevUpdater(showNextUpdater(<<i>>, n), n) = <<i>>
                /\ showNextUpdater(showPrevUpdater(<<i>>, n), n) = <<i>>
                /\ ShowNextTimes(n, <<i>>, n) = <<i>>)
    /\ [][lastEvent' = "showNext" =>
            lightboxIndex' = showNextUpdater(lightboxIndex, imageCount)]_vars
    /\ [][lastEvent' = "showPrev" =>
            lightboxIndex' = showPrevUpdater(lightboxIndex, imageCount)]_vars
    /\ [][(lastEvent' \in {"showNext", "showPrev"} /\ ~LightboxOpen) =>
            lightboxIndex' = <<>>]_vars

\* showPrev has wrapped from the first image to the last of two
C28_Witness ==
    /\ lastEvent = "showPrev"
    /\ imageCount = MaxImages
    /\ lightboxIndex = <<MaxImages - 1>>
    /\ openedBy = "deeplink"
    /\ history = << <<"#lb=", 0>> >>

\* showNext arrived while the lightbox was closed, and it stayed closed
C28_WitnessClosed == lastEvent = "showNext" /\ ~LightboxOpen

\* the App of src/src/App.tsx shows no stale EXIF result: exif, when not
\* null with the lightbox open, was parsed from the image displayed; it is
\* null while the lightbox is closed; at most the parse of the image
\* displayed is not cancelled; a cancelled parse writes nothing when it ends
CurrentAppShowsNoStaleExif ==
    /\ []((LightboxOpen /\ exif # <<>>) => exif = lightboxIndex)
    /\ [](~LightboxOpen => exif = <<>>)
    /\ [](\A p \in parses : ~p[2] => lightboxIndex = <<p[1]>>)
    /\ [][\A p \in parses :
            (lastEvent' = "parseEnds" /\ parses' = parses \ {p} /\ p[2])
                => exif' = exif]_vars

\* C27: a stale EXIF result is never shown: whenever exif is not null
\* while the lightbox is open, it was parsed from the image displayed, for
\* every interleaving of the ends of parses with navigation.
C27_NoStaleExif ==
    (lightboxIndexV1 # <<>> /\ exifV1 # <<>>) => exifV1 = lightboxIndexV1

====
